---- MODULE Spec2Model ----
(***************************************************************************)
(* A model of the scoring pipeline of the RS + Quality screener:           *)
(*   rs_calculator.py    period returns, RS percentile and RS rank          *)
(*   quality_analyzer.py quality score and the left join with the RS table  *)
(*   screener_engine.py  filters, composite score, BUY/WATCH/AVOID signal   *)
(*                                                                         *)
(* Numbers.  The program computes in binary floating point; the model      *)
(* computes in exact rational arithmetic.  A number is a pair <<n, d>>     *)
(* with d >= 1 in lowest terms; <<0, 0>> stands for a missing value (NaN,  *)
(* or Python's None where the program uses None for "no value").  Every    *)
(* comparison with a missing value is FALSE, as it is for NaN.             *)
(***************************************************************************)
EXTENDS Integers, Sequences, FiniteSets, TLC

VARIABLES
    params,            \* the dict returned by render_sidebar
    universe_df,       \* rows of fetch_nse500_universe (a sequence of records)
    price_data,        \* RSCalculator.price_data: symbol -> price series
    fund_info,         \* what the provider answers to fetch_fundamentals
    rs_results,        \* the table returned by calculate_all_rs_metrics
    quality_metrics,   \* the table returned by calculate_quality_scores
    filtered_results,  \* the table returned by apply_filters
    final_results,     \* the table returned by calculate_composite_scores
    row,               \* the row handed to _generate_signal
    signal,            \* the value _generate_signal returned
    screener_results,  \* st.session_state.screener_results
    shown,             \* what the page shows at the end of the script run
    price_index,       \* symbol -> first date of its price frame (consecutive days)
    benchmark_data,    \* the benchmark frame handed to _calculate_mansfield_rs
    mansfield_rs,      \* the value _calculate_mansfield_rs returned
    graded_score,      \* the score handed to get_quality_grade
    grade,             \* the grade get_quality_grade returned
    period_args,       \* the period and skip_recent handed to _calculate_period_return
    period_return,     \* the value _calculate_period_return returned
    trend_strength,    \* the value _calculate_trend_strength returned
    last_updated,      \* st.session_state.last_updated
    yf_history,        \* what the data source holds: ticker -> dated closes
    pc                 \* the stage the run has reached

vars == <<params, universe_df, price_data, fund_info, rs_results,
          quality_metrics, filtered_results, final_results, row, signal,
          screener_results, shown, price_index, benchmark_data,
          mansfield_rs, graded_score, grade, period_args, period_return,
          trend_strength, last_updated, yf_history, pc>>

----------------------------------------------------------------------------
(* Numbers *)

NaN == <<0, 0>>

Abs(x) == IF x < 0 THEN -x ELSE x

RECURSIVE GCD(_, _)
GCD(a, b) == IF b = 0 THEN a ELSE GCD(b, a % b)

\* n/d in lowest terms with a positive denominator.  The only division by
\* zero the modelled code performs on numbers is 0/0 (screener_engine.py
\* 97-98, 110-111), which numpy evaluates to NaN.
Rat(n, d) ==
    IF d = 0 THEN NaN
    ELSE LET s == IF d < 0 THEN -1 ELSE 1
             g == GCD(Abs(n), Abs(d))
         IN  <<(s * n) \div g, (s * d) \div g>>

Num(i) == <<i, 1>>

IsNaN(x) == x[2] = 0

\* sums and products are formed over the least common denominator and after
\* cancelling across, which keeps the intermediate integers small
Add(a, b) == IF IsNaN(a) \/ IsNaN(b) THEN NaN
             ELSE LET g == GCD(a[2], b[2])
                  IN  Rat(a[1] * (b[2] \div g) + b[1] * (a[2] \div g),
                          (a[2] \div g) * b[2])
Sub(a, b) == IF IsNaN(a) \/ IsNaN(b) THEN NaN
             ELSE Add(a, <<-b[1], b[2]>>)
Mul(a, b) == IF IsNaN(a) \/ IsNaN(b) THEN NaN
             ELSE LET g == GCD(Abs(a[1]), b[2])
                      h == GCD(Abs(b[1]), a[2])
                  IN  Rat((a[1] \div g) * (b[1] \div h), (a[2] \div h) * (b[2] \div g))
Div(a, b) == IF IsNaN(a) \/ IsNaN(b) THEN NaN
             ELSE IF b[1] = 0 THEN Rat(a[1] * b[2], 0)
             ELSE Mul(a, IF b[1] < 0 THEN <<-b[2], -b[1]>> ELSE <<b[2], b[1]>>)

Lt(a, b) == ~IsNaN(a) /\ ~IsNaN(b) /\ a[1] * b[2] < b[1] * a[2]
Le(a, b) == ~IsNaN(a) /\ ~IsNaN(b) /\ a[1] * b[2] <= b[1] * a[2]
Gt(a, b) == Lt(b, a)
Ge(a, b) == Le(b, a)

\* Series.fillna(v), one element
FillNa(x, v) == IF IsNaN(x) THEN v ELSE x

----------------------------------------------------------------------------
(* Sequences *)

RECURSIVE SumSeq(_)
SumSeq(s) == IF s = <<>> THEN 0 ELSE Head(s) + SumSeq(Tail(s))

\* the elements of s that satisfy Test, in order (a boolean-mask selection)
RECURSIVE Mask(_, _)
Mask(s, keep) ==
    IF s = <<>> THEN <<>>
    ELSE (IF Head(keep) THEN <<Head(s)>> ELSE <<>>) \o Mask(Tail(s), Tail(keep))

Range(s) == {s[i] : i \in 1..Len(s)}

----------------------------------------------------------------------------
(* Price series.  A series of closes is kept run-length encoded: a        *)
(* sequence of runs [n |-> count, p |-> close], so that the 273 and more  *)
(* observations a 252-day look-back needs stay small.                     *)

SeriesLen(series) == SumSeq([i \in 1..Len(series) |-> series[i].n])

\* the close at 0-based position k, 0 <= k < SeriesLen(series)
RECURSIVE CloseAt(_, _)
CloseAt(series, k) ==
    IF k < Head(series).n THEN Head(series).p
    ELSE CloseAt(Tail(series), k - Head(series).n)

\* Series.iloc[idx]: a negative idx counts from the end; a position outside
\* the series raises IndexError.
IlocRaises(series, idx) ==
    LET n == SeriesLen(series)
        k == IF idx < 0 THEN n + idx ELSE idx
    IN  k < 0 \/ k >= n

Iloc(series, idx) ==
    LET n == SeriesLen(series)
    IN  CloseAt(series, IF idx < 0 THEN n + idx ELSE idx)

SkipRecent == 21

\* a mutant of PeriodReturn: the end price is the latest close whatever
\* skip_recent is
PeriodReturnNoSkip(pdata, symbol, period, skip_recent) ==
    IF symbol \notin DOMAIN pdata THEN NaN
    ELSE LET price_df == pdata[symbol]
             end_idx == -1
             start_idx == end_idx - period
         IN  IF SeriesLen(price_df) < period + skip_recent THEN NaN
             ELSE IF IlocRaises(price_df, end_idx) \/ IlocRaises(price_df, start_idx)
                  THEN NaN
             ELSE LET end_price == Iloc(price_df, end_idx)
                      start_price == Iloc(price_df, start_idx)
                  IN  IF start_price = Num(0) \/ IsNaN(start_price) \/ IsNaN(end_price)
                      THEN NaN
                      ELSE Mul(Sub(Div(end_price, start_price), Num(1)), Num(100))

\* a mutant of PeriodReturn: a start index before the first observation is
\* moved to the first observation
PeriodReturnClampedStart(pdata, symbol, period, skip_recent) ==
    IF symbol \notin DOMAIN pdata THEN NaN
    ELSE LET price_df == pdata[symbol]
             end_idx == IF skip_recent > 0 THEN -1 - skip_recent ELSE -1
             start_idx == IF IlocRaises(price_df, end_idx - period)
                          THEN 0 ELSE end_idx - period
         IN  IF SeriesLen(price_df) < period + skip_recent THEN NaN
             ELSE IF IlocRaises(price_df, end_idx) \/ IlocRaises(price_df, start_idx)
                  THEN NaN
             ELSE LET end_price == Iloc(price_df, end_idx)
                      start_price == Iloc(price_df, start_idx)
                  IN  IF start_price = Num(0) \/ IsNaN(start_price) \/ IsNaN(end_price)
                      THEN NaN
                      ELSE Mul(Sub(Div(end_price, start_price), Num(1)), Num(100))

\* RSCalculator._calculate_period_return; NaN stands for the None it returns
PeriodReturn(pdata, symbol, period, skip_recent) ==
    IF symbol \notin DOMAIN pdata THEN NaN
    ELSE LET price_df == pdata[symbol]
             end_idx == IF skip_recent > 0 THEN -1 - skip_recent ELSE -1
             start_idx == end_idx - period
         IN  IF SeriesLen(price_df) < period + skip_recent THEN NaN
             ELSE IF IlocRaises(price_df, end_idx) \/ IlocRaises(price_df, start_idx)
                  THEN NaN      \* IndexError, caught by the bare except
             ELSE LET end_price == Iloc(price_df, end_idx)
                      start_price == Iloc(price_df, start_idx)
                  IN  IF start_price = Num(0) \/ IsNaN(start_price) \/ IsNaN(end_price)
                      THEN NaN
                      ELSE Mul(Sub(Div(end_price, start_price), Num(1)), Num(100))

----------------------------------------------------------------------------
(* The universe *)

\* DataFetcher._get_nse500_list, with the .NS suffix: the first eight entries
\* and, in list order, some later ones; the list names SBIN, HDFCBANK and
\* ICICIBANK (and others) twice
Nse500List == <<"HDFCBANK.NS", "ICICIBANK.NS", "KOTAKBANK.NS", "AXISBANK.NS",
                "SBIN.NS", "BAJFINANCE.NS", "BAJAJFINSV.NS", "HDFC.NS",
                "TCS.NS", "SBIN.NS", "HDFCBANK.NS", "ICICIBANK.NS">>

\* the largest universe the model builds
MaxSymbols == 5

\* DataFetcher._get_stock_info: one universe row
StockInfo(symbol, sector, market_cap, current_price, pe_ratio) ==
    [symbol |-> symbol, sector |-> sector, market_cap |-> market_cap,
     current_price |-> current_price, pe_ratio |-> pe_ratio]

SymbolsOf(df) == [i \in 1..Len(df) |-> df[i].symbol]

\* first occurrences, in order: the order in which a dict gains its keys
RECURSIVE Dedup(_)
Dedup(s) ==
    IF s = <<>> THEN <<>>
    ELSE LET init == Dedup(SubSeq(s, 1, Len(s) - 1))
             last == s[Len(s)]
         IN  IF last \in Range(init) THEN init ELSE Append(init, last)

\* self.returns.keys(): fetch_historical_prices stores a symbol when its
\* history is not empty, in the order of the universe; _calculate_returns
\* gives each stored symbol a (non-None) return series.
ReturnsKeys(udf, pdata) ==
    SelectSeq(Dedup(SymbolsOf(udf)), LAMBDA sym : sym \in DOMAIN pdata)

----------------------------------------------------------------------------
(* RS percentile and RS rank *)

LongReturn(pdata, lookback, symbol) ==
    PeriodReturn(pdata, symbol, lookback, SkipRecent)

\* For every symbol of self.returns, in key order, the long-horizon return
\* that _calculate_rs_percentile and _calculate_rs_rank compute for it (the
\* program recomputes these on every call; they depend on price_data and the
\* look-back only).
LongReturns(udf, pdata, lookback) ==
    LET keys == ReturnsKeys(udf, pdata)
        rets == [i \in 1..Len(keys) |->
                    [sym |-> keys[i], ret |-> LongReturn(pdata, lookback, keys[i])]]
    IN  SubSeq(rets, 1, Len(keys))

\* all_returns / returns_list: the entries with a defined return
Defined(returns) == SelectSeq(returns, LAMBDA e : ~IsNaN(e.ret))

\* a mutant of RSPercentile: ties counted as lower (<= for <)
RSPercentileTiesLower(returns, stock_return) ==
    LET all_returns == Defined(returns)
        lower == {i \in 1..Len(all_returns) : Le(all_returns[i].ret, stock_return)}
    IN  IF IsNaN(stock_return) THEN Num(0)
        ELSE IF Len(all_returns) = 0 THEN Num(50)
        ELSE Mul(Rat(Cardinality(lower), Len(all_returns)), Num(100))

\* a mutant of RSPercentile: every symbol of self.returns in the denominator
RSPercentileAllKeys(returns, stock_return) ==
    LET all_returns == Defined(returns)
        lower == {i \in 1..Len(all_returns) : Lt(all_returns[i].ret, stock_return)}
    IN  IF IsNaN(stock_return) THEN Num(0)
        ELSE IF Len(all_returns) = 0 THEN Num(50)
        ELSE Mul(Rat(Cardinality(lower), Len(returns)), Num(100))

\* RSCalculator._calculate_rs_percentile, for a symbol whose long-horizon
\* return is stock_return
RSPercentile(returns, stock_return) ==
    LET all_returns == Defined(returns)
        lower == {i \in 1..Len(all_returns) : Lt(all_returns[i].ret, stock_return)}
    IN  IF IsNaN(stock_return) THEN Num(0)
        ELSE IF Len(all_returns) = 0 THEN Num(50)     \* "Default to middle if no data"
        ELSE Mul(Rat(Cardinality(lower), Len(all_returns)), Num(100))

\* list.sort(key=ret, reverse=True): stable, so equal returns keep their order
RECURSIVE SortByReturnDesc(_)
SortByReturnDesc(list) ==
    IF list = <<>> THEN <<>>
    ELSE LET init == SortByReturnDesc(SubSeq(list, 1, Len(list) - 1))
             last == list[Len(list)]
             k == Cardinality({i \in 1..Len(init) : Ge(init[i].ret, last.ret)})
         IN  SubSeq(init, 1, k) \o <<last>> \o SubSeq(init, k + 1, Len(init))

UnrankedSentinel == 999

\* a mutant of RSRank: symbols with equal returns share the rank of the first
RSRankTiesShare(returns, symbol, stock_return) ==
    LET returns_list == SortByReturnDesc(Defined(returns))
        at == {i \in 1..Len(returns_list) : returns_list[i].ret = stock_return}
    IN  IF IsNaN(stock_return) THEN UnrankedSentinel
        ELSE IF at = {} THEN UnrankedSentinel
        ELSE CHOOSE i \in at : \A j \in at : i <= j

\* RSCalculator._calculate_rs_rank
RSRank(returns, symbol, stock_return) ==
    LET returns_list == SortByReturnDesc(Defined(returns))
        at == {i \in 1..Len(returns_list) : returns_list[i].sym = symbol}
    IN  IF IsNaN(stock_return) THEN UnrankedSentinel
        ELSE IF at = {} THEN UnrankedSentinel
        ELSE CHOOSE i \in at : \A j \in at : i <= j

\* the loop body of calculate_all_rs_metrics for one universe row.  The
\* columns computed from benchmark series and from the whole price history
\* (rs_vs_*, mansfield_*, volatility, trend_strength) are not carried.
StockMetrics(urow, returns, pdata, lookback) ==
    LET stock_return == LongReturn(pdata, lookback, urow.symbol)
    IN  [symbol |-> urow.symbol, sector |-> urow.sector,
         market_cap |-> urow.market_cap, current_price |-> urow.current_price,
         pe_ratio |-> urow.pe_ratio,
         rs_percentile |-> RSPercentile(returns, stock_return),
         rs_rank |-> RSRank(returns, urow.symbol, stock_return),
         return_1m |-> PeriodReturn(pdata, urow.symbol, 21, 0),
         return_3m |-> PeriodReturn(pdata, urow.symbol, 63, 0),
         return_6m |-> PeriodReturn(pdata, urow.symbol, 126, 0),
         return_12m |-> PeriodReturn(pdata, urow.symbol, 252, 0)]

\* RSCalculator.calculate_all_rs_metrics: a universe row whose symbol has no
\* return series is skipped
AllRSMetrics(udf, pdata, lookback) ==
    LET returns == LongReturns(udf, pdata, lookback)
        listed == SelectSeq(udf, LAMBDA urow : urow.symbol \in DOMAIN pdata)
    IN  [i \in 1..Len(listed) |-> StockMetrics(listed[i], returns, pdata, lookback)]

CalculateAllRSMetrics ==
    /\ pc = "universe"
    /\ rs_results' = AllRSMetrics(universe_df, price_data, params.rs_lookback)
    /\ pc' = "rs"
    /\ UNCHANGED <<period_args, period_return, trend_strength, last_updated, yf_history,
                   price_index, benchmark_data, mansfield_rs, graded_score, grade,
                   screener_results, shown, params, universe_df, price_data,
                   fund_info, quality_metrics,
                   filtered_results, final_results, row, signal>>

----------------------------------------------------------------------------
(* Parameters (render_sidebar) *)

Strategies == {"RS + Quality (Recommended)", "RS + Value",
               "RS + Low Volatility", "Pure RS (Advanced)"}

Lookbacks == {252, 126, 63, 21}

\* the values the sidebar widgets start with
DefaultParams ==
    [strategy |-> "RS + Quality (Recommended)", rs_lookback |-> 252,
     rs_threshold |-> Num(80), min_roe |-> Num(15), max_de |-> Num(1),
     min_margin |-> Num(10), min_mcap |-> Num(5000), exclude_sectors |-> {}]

NoTable == <<>>
NoRow == [symbol |-> "-"]
NoBenchmark == [first |-> 0, closes |-> <<>>]
NoCall == [period |-> 0, skip_recent |-> 0]

\* st.session_state.last_updated: None until a run has returned a table, then
\* the time of that run (times are counted 1, 2, ...)
Never == 0

\* st.session_state.screener_results: None until a run has returned a table
NoResults == [none |-> TRUE, rows |-> NoTable]
Results(df) == [none |-> FALSE, rows |-> df]

\* the page of main(): the welcome text, the "No stocks matched" warning or
\* the results display, under an error banner when run_screening reported one
Welcome == [view |-> "welcome", rows |-> NoTable, error |-> FALSE]
Display(results, error) ==
    IF results.none THEN [Welcome EXCEPT !.error = error]
    ELSE IF Len(results.rows) = 0
    THEN [view |-> "no matches", rows |-> NoTable, error |-> error]
    ELSE [view |-> "results", rows |-> results.rows, error |-> error]

----------------------------------------------------------------------------
(* SpecRS: calculate_all_rs_metrics over universes of 1..MaxSymbols symbols  *)
(* whose price histories are drawn from PriceHistories, under the longest   *)
(* and the shortest look-back the sidebar offers.                            *)

\* len closes: the last SkipRecent + 1 are b, the ones before are a
TwoRun(len, a, b) ==
    <<[n |-> len - (SkipRecent + 1), p |-> a], [n |-> SkipRecent + 1, p |-> b]>>

EndCloses == {98, 105, 108, 110}

\* histories with a long-horizon return of -2, 5, 8 and 10 percent, and one
\* of exactly lookback + SkipRecent closes (no return)
PriceHistories(lookback) ==
    {TwoRun(lookback + SkipRecent + 9, Num(100), Num(e)) : e \in EndCloses}
        \cup {TwoRun(lookback + SkipRecent, Num(100), Num(110))}

EmptyHistory == <<>>

\* the first place of sym in the list
IndexOfSymbol(sym) ==
    CHOOSE i \in 1..Len(Nse500List) :
        /\ Nse500List[i] = sym
        /\ \A j \in 1..(i - 1) : Nse500List[j] # sym

\* fetch_historical_prices: a symbol whose history is empty is not stored
StoredPrices(n, hist) ==
    [sym \in {Nse500List[i] : i \in {j \in 1..n : hist[j] # EmptyHistory}}
        |-> hist[IndexOfSymbol(sym)]]

PlainUniverse(n) ==
    [i \in 1..n |-> StockInfo(Nse500List[i], "Financial Services",
                              Num(50000), Num(100), Num(20))]

InitRS ==
    /\ \E n \in 1..MaxSymbols, lookback \in {252, 21} :
          /\ params = [DefaultParams EXCEPT !.rs_lookback = lookback]
          /\ universe_df = PlainUniverse(n)
          /\ \E hist \in [1..n -> PriceHistories(lookback) \cup {EmptyHistory}] :
                price_data = StoredPrices(n, hist)
    /\ fund_info = <<>>
    /\ rs_results = NoTable
    /\ quality_metrics = NoTable
    /\ filtered_results = NoTable
    /\ final_results = NoTable
    /\ row = NoRow
    /\ signal = "-"
    /\ screener_results = NoResults
    /\ shown = Welcome
    /\ price_index = <<>>
    /\ benchmark_data = NoBenchmark
    /\ mansfield_rs = NaN
    /\ graded_score = NaN
    /\ grade = "-"
    /\ period_args = NoCall
    /\ period_return = NaN
    /\ trend_strength = NaN
    /\ last_updated = Never
    /\ yf_history = <<>>
    /\ pc = "universe"

NextRS == CalculateAllRSMetrics

SpecRS == InitRS /\ [][NextRS]_vars

\* the universe members and their long-horizon returns, as the claims speak
\* of them
Members == Range(SymbolsOf(universe_df))
MemberReturn(sym) == LongReturn(price_data, params.rs_lookback, sym)
DefinedMembers == {sym \in Members : ~IsNaN(MemberReturn(sym))}
MembersWithReturn(r) == {sym \in Members : MemberReturn(sym) = Num(r)}

\* the universe of the worked example: 5 symbols with returns 10, 5, 5, -2, 8
ExampleUniverse ==
    /\ Cardinality(Members) = 5
    /\ Cardinality(DefinedMembers) = 5
    /\ Cardinality(MembersWithReturn(10)) = 1
    /\ Cardinality(MembersWithReturn(5)) = 2
    /\ Cardinality(MembersWithReturn(-2)) = 1
    /\ Cardinality(MembersWithReturn(8)) = 1

\* C1 as stated: in a universe of 5 symbols with long-horizon returns
\* {10, 5, 5, -2, 8} the symbol with return 10 gets percentile exactly 80 and
\* each of the two symbols with return 5 gets exactly 40.
C1_TiedPercentilesAsStated ==
    (pc = "rs" /\ ExampleUniverse) =>
        /\ Len(rs_results) = 5
        /\ \A i \in 1..Len(rs_results) :
              /\ MemberReturn(rs_results[i].symbol) = Num(10)
                    => rs_results[i].rs_percentile = Num(80)
              /\ MemberReturn(rs_results[i].symbol) = Num(5)
                    => rs_results[i].rs_percentile = Num(40)

\* C1 (amended): in that universe the symbol with return 10 gets percentile
\* exactly 80 and each of the two symbols with return 5 gets exactly 20 (one
\* member, the one with return -2, is strictly lower); the tied symbols share
\* their percentile.
C1_TiedPercentiles ==
    (pc = "rs" /\ ExampleUniverse) =>
        /\ Len(rs_results) = 5
        /\ \A i \in 1..Len(rs_results) :
              /\ MemberReturn(rs_results[i].symbol) = Num(10)
                    => rs_results[i].rs_percentile = Num(80)
              /\ MemberReturn(rs_results[i].symbol) = Num(5)
                    => rs_results[i].rs_percentile = Num(20)

C1_Witness ==
    /\ pc = "rs"
    /\ ExampleUniverse
    /\ Cardinality({i \in 1..Len(rs_results) : rs_results[i].rs_percentile = Num(20)}) = 2
    /\ \E i \in 1..Len(rs_results) : rs_results[i].rs_percentile = Num(80)

\* C2: a symbol with a defined long-horizon return gets percentile
\* 100 * (members with a strictly lower defined return) / (members with a
\* defined return); a symbol without one gets 0 and is counted nowhere.
C2_PercentileFormula ==
    pc = "rs" =>
        LET defined == DefinedMembers
            ret == [sym \in defined |-> MemberReturn(sym)]
        IN  \A i \in 1..Len(rs_results) :
                LET sym == rs_results[i].symbol
                IN  IF sym \in defined
                    THEN rs_results[i].rs_percentile =
                             Rat(100 * Cardinality({t \in defined : Lt(ret[t], ret[sym])}),
                                 Cardinality(defined))
                    ELSE rs_results[i].rs_percentile = Num(0)

\* a table with a symbol without a return (percentile 0), two tied symbols
\* and a symbol above them
C2_Witness ==
    /\ pc = "rs"
    /\ \E i, j, k, l \in 1..Len(rs_results) :
          /\ rs_results[i].symbol \notin DefinedMembers
          /\ rs_results[i].rs_percentile = Num(0)
          /\ j # k
          /\ MemberReturn(rs_results[j].symbol) = MemberReturn(rs_results[k].symbol)
          /\ rs_results[j].symbol \in DefinedMembers
          /\ rs_results[j].rs_percentile = rs_results[k].rs_percentile
          /\ Gt(rs_results[l].rs_percentile, rs_results[j].rs_percentile)

\* C3: when no member of the universe has a defined long-horizon return,
\* every symbol's percentile is 50.
C3_MidpointFallback ==
    (pc = "rs" /\ DefinedMembers = {}) =>
        \A i \in 1..Len(rs_results) : rs_results[i].rs_percentile = Num(50)

----------------------------------------------------------------------------
(* Quality score (quality_analyzer.py) *)

Min(a, b) == IF a <= b THEN a ELSE b

\* the fields of a fundamentals row that the score or a filter reads
ScoredFields == {"roe", "roa", "operating_margin", "debt_equity",
                 "current_ratio", "revenue_growth", "earnings_growth",
                 "free_cash_flow"}

SmallNegativeFcf == -1000000000

\* ROE (0-15 points)
\* a mutant of RoePoints: the top tier starts above 20, not at 20
RoePointsExclusive(roe) ==
    IF IsNaN(roe) THEN 0
    ELSE IF Gt(roe, Num(20)) THEN 15
    ELSE IF Ge(roe, Num(15)) THEN 12
    ELSE IF Ge(roe, Num(10)) THEN 8
    ELSE IF Ge(roe, Num(5)) THEN 4
    ELSE 0

RoePoints(roe) ==
    IF IsNaN(roe) THEN 0
    ELSE IF Ge(roe, Num(20)) THEN 15
    ELSE IF Ge(roe, Num(15)) THEN 12
    ELSE IF Ge(roe, Num(10)) THEN 8
    ELSE IF Ge(roe, Num(5)) THEN 4
    ELSE 0

\* ROA (0-10 points)
RoaPoints(roa) ==
    IF IsNaN(roa) THEN 0
    ELSE IF Ge(roa, Num(10)) THEN 10
    ELSE IF Ge(roa, Num(7)) THEN 7
    ELSE IF Ge(roa, Num(5)) THEN 5
    ELSE IF Ge(roa, Num(3)) THEN 3
    ELSE 0

\* Operating Margin (0-15 points)
OperatingMarginPoints(op_margin) ==
    IF IsNaN(op_margin) THEN 0
    ELSE IF Ge(op_margin, Num(20)) THEN 15
    ELSE IF Ge(op_margin, Num(15)) THEN 12
    ELSE IF Ge(op_margin, Num(10)) THEN 8
    ELSE IF Ge(op_margin, Num(5)) THEN 4
    ELSE 0

\* Debt/Equity (0-20 points), lower is better
DebtEquityPoints(de_ratio) ==
    IF IsNaN(de_ratio) THEN 0
    ELSE IF Le(de_ratio, Rat(3, 10)) THEN 20
    ELSE IF Le(de_ratio, Rat(5, 10)) THEN 15
    ELSE IF Le(de_ratio, Num(1)) THEN 10
    ELSE IF Le(de_ratio, Num(2)) THEN 5
    ELSE 0

\* Current Ratio (0-10 points)
CurrentRatioPoints(current_ratio) ==
    IF IsNaN(current_ratio) THEN 0
    ELSE IF Ge(current_ratio, Num(2)) THEN 10
    ELSE IF Ge(current_ratio, Rat(15, 10)) THEN 7
    ELSE IF Ge(current_ratio, Num(1)) THEN 5
    ELSE 0

\* Revenue Growth (0-10 points)
RevenueGrowthPoints(rev_growth) ==
    IF IsNaN(rev_growth) THEN 0
    ELSE IF Ge(rev_growth, Num(20)) THEN 10
    ELSE IF Ge(rev_growth, Num(15)) THEN 8
    ELSE IF Ge(rev_growth, Num(10)) THEN 6
    ELSE IF Ge(rev_growth, Num(5)) THEN 4
    ELSE 0

\* Earnings Growth (0-10 points)
EarningsGrowthPoints(earn_growth) ==
    IF IsNaN(earn_growth) THEN 0
    ELSE IF Ge(earn_growth, Num(25)) THEN 10
    ELSE IF Ge(earn_growth, Num(20)) THEN 8
    ELSE IF Ge(earn_growth, Num(15)) THEN 6
    ELSE IF Ge(earn_growth, Num(10)) THEN 4
    ELSE 0

\* Cash Flow Score (10 points max)
\* a mutant of CashFlowPoints: a missing free cash flow scored as "small
\* negative OK"
CashFlowPointsMissingOk(fcf) ==
    IF ~IsNaN(fcf) /\ Gt(fcf, Num(0)) THEN 10
    ELSE IF IsNaN(fcf) \/ Gt(fcf, Num(SmallNegativeFcf)) THEN 5
    ELSE 0

CashFlowPoints(fcf) ==
    IF ~IsNaN(fcf) /\ Gt(fcf, Num(0)) THEN 10
    ELSE IF ~IsNaN(fcf) /\ Gt(fcf, Num(SmallNegativeFcf)) THEN 5
    ELSE 0

\* QualityAnalyzer._calculate_composite_quality_score
QualityScore(r) ==
    LET profitability_score ==
            RoePoints(r.roe) + RoaPoints(r.roa) + OperatingMarginPoints(r.operating_margin)
        health_score ==
            DebtEquityPoints(r.debt_equity) + CurrentRatioPoints(r.current_ratio)
        growth_score ==
            RevenueGrowthPoints(r.revenue_growth) + EarningsGrowthPoints(r.earnings_growth)
        score == profitability_score + health_score + growth_score
                     + CashFlowPoints(r.free_cash_flow)
    IN  Num(Min(score, 100))      \* Cap at 100

\* DataFetcher.fetch_fundamentals: one row per requested symbol, in order; a
\* symbol whose request raises is skipped.  info[sym] is the row built for
\* sym ([ok |-> TRUE, symbol, the scored fields]) or [ok |-> FALSE].
FetchFundamentals(symbols, info) ==
    LET got == SelectSeq(symbols, LAMBDA sym : info[sym].ok)
    IN  [i \in 1..Len(got) |-> info[got[i]]]

\* one entry of quality_scores
QualityRow(f) ==
    [symbol |-> f.symbol, quality_score |-> QualityScore(f),
     roe |-> f.roe, roa |-> f.roa, debt_equity |-> f.debt_equity,
     current_ratio |-> f.current_ratio, operating_margin |-> f.operating_margin,
     revenue_growth |-> f.revenue_growth, earnings_growth |-> f.earnings_growth,
     free_cash_flow |-> f.free_cash_flow]

\* the right-hand columns of a left row without a match
NoQuality ==
    [quality_score |-> NaN, roe |-> NaN, roa |-> NaN, debt_equity |-> NaN,
     current_ratio |-> NaN, operating_margin |-> NaN, revenue_growth |-> NaN,
     earnings_growth |-> NaN, free_cash_flow |-> NaN]

\* left.merge(right, on='symbol', how='left'): every left row, in order, once
\* per matching right row (in the right table's order), or once with the
\* right-hand columns missing
RECURSIVE MergeLeft(_, _)
MergeLeft(left, right) ==
    IF left = <<>> THEN <<>>
    ELSE LET l == Head(left)
             matches == SelectSeq(right, LAMBDA q : q.symbol = l.symbol)
             joined == IF matches = <<>> THEN <<l @@ NoQuality>>
                       ELSE [i \in 1..Len(matches) |-> l @@ matches[i]]
         IN  joined \o MergeLeft(Tail(left), right)

\* QualityAnalyzer.calculate_quality_scores.  An RS table or a fundamentals
\* table without rows has no 'symbol' column: the KeyError ends the run in
\* run_screening's except branch.
CalculateQualityScores ==
    /\ pc = "rs"
    /\ LET fundamentals == FetchFundamentals(SymbolsOf(rs_results), fund_info)
           quality_df == [i \in 1..Len(fundamentals) |-> QualityRow(fundamentals[i])]
       IN  IF rs_results = <<>> \/ fundamentals = <<>>
           THEN /\ pc' = "failed"
                /\ UNCHANGED quality_metrics
           ELSE /\ pc' = "quality"
                /\ quality_metrics' = MergeLeft(rs_results, quality_df)
    /\ UNCHANGED <<period_args, period_return, trend_strength, last_updated, yf_history,
                   price_index, benchmark_data, mansfield_rs, graded_score, grade,
                   screener_results, shown, params, universe_df, price_data,
                   fund_info, rs_results,
                   filtered_results, final_results, row, signal>>

----------------------------------------------------------------------------
(* SpecQuality: calculate_quality_scores over RS tables of 1..MaxSymbols     *)
(* symbols.  The first symbol's fundamentals sweep every field through the  *)
(* values around each tier boundary, against four backgrounds for the other *)
(* fields; each other symbol has top-tier fundamentals or none (its request *)
(* failed).                                                                  *)

\* t and the value just on the other side of it
Around(t) == {Sub(t, Rat(1, 10)), t, Add(t, Rat(1, 10))}

SweepValues(field) ==
    {NaN} \cup
    CASE field = "roe" -> UNION {Around(Num(t)) : t \in {5, 10, 15, 20}}
      [] field = "roa" -> UNION {Around(Num(t)) : t \in {3, 5, 7, 10}}
      [] field = "operating_margin" -> UNION {Around(Num(t)) : t \in {5, 10, 15, 20}}
      [] field = "debt_equity" ->
             UNION {Around(t) : t \in {Rat(3, 10), Rat(5, 10), Num(1), Num(2)}}
      [] field = "current_ratio" -> UNION {Around(t) : t \in {Num(1), Rat(15, 10), Num(2)}}
      [] field = "revenue_growth" -> UNION {Around(Num(t)) : t \in {5, 10, 15, 20}}
      [] field = "earnings_growth" -> UNION {Around(Num(t)) : t \in {10, 15, 20, 25}}
      [] field = "free_cash_flow" ->
             {Num(SmallNegativeFcf - 1), Num(SmallNegativeFcf),
              Num(SmallNegativeFcf + 1), Num(-1), Num(0), Num(1)}

\* the row fetch_fundamentals builds for a symbol
Fundamentals(symbol, roe, roa, operating_margin, debt_equity, current_ratio, revenue_growth, earnings_growth, free_cash_flow) ==
    [ok |-> TRUE, symbol |-> symbol, roe |-> roe, roa |-> roa,
     operating_margin |-> operating_margin, debt_equity |-> debt_equity,
     current_ratio |-> current_ratio, revenue_growth |-> revenue_growth,
     earnings_growth |-> earnings_growth, free_cash_flow |-> free_cash_flow]

Background(symbol, level) ==
    CASE level = "missing" ->
             Fundamentals(symbol, NaN, NaN, NaN, NaN, NaN, NaN, NaN, NaN)
      [] level = "none" ->
             Fundamentals(symbol, Num(0), Num(0), Num(0), Num(3), Rat(1, 2),
                          Num(0), Num(0), Num(2 * SmallNegativeFcf))
      [] level = "mid" ->
             Fundamentals(symbol, Num(12), Num(6), Num(12), Rat(8, 10), Rat(12, 10),
                          Num(12), Num(17), Num(-5))
      [] level = "top" ->
             Fundamentals(symbol, Num(30), Num(15), Num(30), Rat(1, 10), Num(3),
                          Num(30), Num(40), Num(1000))

Levels == {"missing", "none", "mid", "top"}

Sweep(symbol) ==
    UNION {{[Background(symbol, level) EXCEPT ![field] = v] :
                level \in Levels, v \in SweepValues(field)} : field \in ScoredFields}

FetchFailed == [ok |-> FALSE]

\* an RS table of n symbols with distinct returns, the best one last
PlainRSTable(n) ==
    [i \in 1..n |-> PlainUniverse(n)[i] @@
                    [rs_percentile |-> Rat(100 * (i - 1), n), rs_rank |-> n + 1 - i]]

InitQuality ==
    /\ params = DefaultParams
    /\ universe_df = NoTable
    /\ price_data = <<>>
    /\ \E n \in 1..MaxSymbols :
          /\ rs_results = PlainRSTable(n)
          /\ \E first \in Sweep(Nse500List[1]) \cup {FetchFailed},
                others \in [2..n -> {"top", "failed"}] :
                fund_info = [sym \in {Nse500List[i] : i \in 1..n} |->
                                IF sym = Nse500List[1] THEN first
                                ELSE IF others[IndexOfSymbol(sym)] = "failed" THEN FetchFailed
                                ELSE Background(sym, "top")]
    /\ quality_metrics = NoTable
    /\ filtered_results = NoTable
    /\ final_results = NoTable
    /\ row = NoRow
    /\ signal = "-"
    /\ screener_results = NoResults
    /\ shown = Welcome
    /\ price_index = <<>>
    /\ benchmark_data = NoBenchmark
    /\ mansfield_rs = NaN
    /\ graded_score = NaN
    /\ grade = "-"
    /\ period_args = NoCall
    /\ period_return = NaN
    /\ trend_strength = NaN
    /\ last_updated = Never
    /\ yf_history = <<>>
    /\ pc = "rs"

NextQuality == CalculateQualityScores

SpecQuality == InitQuality /\ [][NextQuality]_vars

AllRatiosMissing(r) == \A f \in ScoredFields : IsNaN(r[f])

HasFundamentals(sym) == fund_info[sym].ok

\* C7 as stated: on every screening record quality_score is present and in
\* [0, 100], and it is 0 when every ratio is missing.
C7_ScoreNeverMissingAsStated ==
    pc = "quality" =>
        \A i \in 1..Len(quality_metrics) :
            LET r == quality_metrics[i]
            IN  /\ ~IsNaN(r.quality_score)
                /\ Ge(r.quality_score, Num(0)) /\ Le(r.quality_score, Num(100))
                /\ AllRatiosMissing(r) => r.quality_score = Num(0)

\* C7 (amended): for every symbol fetch_fundamentals returned a row for,
\* quality_score is present and in [0, 100], and it is exactly 0 when every
\* ratio of the row is missing; the record of a symbol without a
\* fundamentals row keeps quality_score (and every ratio) missing.
C7_ScoreRange ==
    pc = "quality" =>
        \A i \in 1..Len(quality_metrics) :
            LET r == quality_metrics[i]
            IN  IF HasFundamentals(r.symbol)
                THEN /\ ~IsNaN(r.quality_score)
                     /\ Ge(r.quality_score, Num(0)) /\ Le(r.quality_score, Num(100))
                     /\ AllRatiosMissing(r) => r.quality_score = Num(0)
                ELSE IsNaN(r.quality_score) /\ AllRatiosMissing(r)

\* a joined table with a scored all-missing snapshot (0), a top snapshot
\* (100) and a symbol whose fundamentals could not be fetched
C7_Witness ==
    /\ pc = "quality"
    /\ \E i, j, k \in 1..Len(quality_metrics) :
          /\ HasFundamentals(quality_metrics[i].symbol)
          /\ AllRatiosMissing(quality_metrics[i])
          /\ quality_metrics[i].quality_score = Num(0)
          /\ quality_metrics[j].quality_score = Num(100)
          /\ ~HasFundamentals(quality_metrics[k].symbol)
          /\ IsNaN(quality_metrics[k].quality_score)

\* the tier tables of the claim: the points of the first tier v reaches
RECURSIVE StepAtLeast(_, _)
StepAtLeast(v, tiers) ==
    IF tiers = <<>> THEN 0
    ELSE IF Ge(v, Head(tiers)[1]) THEN Head(tiers)[2]
    ELSE StepAtLeast(v, Tail(tiers))

RECURSIVE StepAtMost(_, _)
StepAtMost(v, tiers) ==
    IF tiers = <<>> THEN 0
    ELSE IF Le(v, Head(tiers)[1]) THEN Head(tiers)[2]
    ELSE StepAtMost(v, Tail(tiers))

ClaimedProfitability(r) ==
      StepAtLeast(r.roe, <<<<Num(20), 15>>, <<Num(15), 12>>, <<Num(10), 8>>, <<Num(5), 4>>>>)
    + StepAtLeast(r.roa, <<<<Num(10), 10>>, <<Num(7), 7>>, <<Num(5), 5>>, <<Num(3), 3>>>>)
    + StepAtLeast(r.operating_margin,
                  <<<<Num(20), 15>>, <<Num(15), 12>>, <<Num(10), 8>>, <<Num(5), 4>>>>)

ClaimedHealth(r) ==
      StepAtMost(r.debt_equity,
                 <<<<Rat(3, 10), 20>>, <<Rat(5, 10), 15>>, <<Num(1), 10>>, <<Num(2), 5>>>>)
    + StepAtLeast(r.current_ratio, <<<<Num(2), 10>>, <<Rat(15, 10), 7>>, <<Num(1), 5>>>>)

ClaimedGrowth(r) ==
      StepAtLeast(r.revenue_growth,
                  <<<<Num(20), 10>>, <<Num(15), 8>>, <<Num(10), 6>>, <<Num(5), 4>>>>)
    + StepAtLeast(r.earnings_growth,
                  <<<<Num(25), 10>>, <<Num(20), 8>>, <<Num(15), 6>>, <<Num(10), 4>>>>)

ClaimedCash(r) ==
    IF Gt(r.free_cash_flow, Num(0)) THEN 10
    ELSE IF Gt(r.free_cash_flow, Num(-1000000000)) /\ Le(r.free_cash_flow, Num(0)) THEN 5
    ELSE 0

\* C8: the quality score is the sum of the tier step functions of the eight
\* metrics, a missing metric contributing 0; the bucket sub-totals stay within
\* 40, 30, 20 and 10, so the final cap at 100 changes nothing.
C8_TierSum ==
    pc = "quality" =>
        \A i \in 1..Len(quality_metrics) :
            LET r == quality_metrics[i]
            IN  HasFundamentals(r.symbol) =>
                    /\ r.quality_score = Num(ClaimedProfitability(r) + ClaimedHealth(r)
                                             + ClaimedGrowth(r) + ClaimedCash(r))
                    /\ ClaimedProfitability(r) <= 40
                    /\ ClaimedHealth(r) <= 30
                    /\ ClaimedGrowth(r) <= 20
                    /\ ClaimedCash(r) <= 10

\* a snapshot on a tier boundary (ROE exactly 20, the rest top tier) scoring
\* the full 100
C8_Witness ==
    /\ pc = "quality"
    /\ \E i \in 1..Len(quality_metrics) :
          /\ quality_metrics[i].roe = Num(20)
          /\ quality_metrics[i].quality_score = Num(100)

----------------------------------------------------------------------------
(* Filters (ScreenerEngine.apply_filters) *)

QualityFilterStrategies == {"RS + Quality (Recommended)", "Pure RS (Advanced)"}

\* Filter 1: RS Threshold
RSThresholdFilter(df, p) ==
    SelectSeq(df, LAMBDA r : Ge(r.rs_percentile, p.rs_threshold))

\* a mutant of QualityFilters: a missing quality field fails its filter
QualityFiltersMissingFails(df, p) ==
    IF p.strategy \in QualityFilterStrategies
    THEN SelectSeq(df, LAMBDA r : /\ Ge(r.roe, p.min_roe)
                                  /\ Le(r.debt_equity, p.max_de)
                                  /\ Ge(r.operating_margin, p.min_margin))
    ELSE df

\* a mutant of QualityFilters: applied under every strategy
QualityFiltersEveryStrategy(df, p) ==
    LET by_roe == SelectSeq(df, LAMBDA r : Ge(r.roe, p.min_roe) \/ IsNaN(r.roe))
        by_de == SelectSeq(by_roe, LAMBDA r : Le(r.debt_equity, p.max_de)
                                                  \/ IsNaN(r.debt_equity))
    IN  SelectSeq(by_de, LAMBDA r : Ge(r.operating_margin, p.min_margin)
                                        \/ IsNaN(r.operating_margin))

\* Filter 2: Quality Filters
QualityFilters(df, p) ==
    IF p.strategy \in QualityFilterStrategies
    THEN LET by_roe == SelectSeq(df, LAMBDA r : Ge(r.roe, p.min_roe) \/ IsNaN(r.roe))
             by_de == SelectSeq(by_roe, LAMBDA r : Le(r.debt_equity, p.max_de)
                                                       \/ IsNaN(r.debt_equity))
         IN  SelectSeq(by_de, LAMBDA r : Ge(r.operating_margin, p.min_margin)
                                             \/ IsNaN(r.operating_margin))
    ELSE df

\* a mutant of MarketCapFilter: a table none of whose rows qualifies is
\* left as it is
MarketCapFilterNeverEmpty(df, p) ==
    LET kept == SelectSeq(df, LAMBDA r : Ge(r.market_cap, p.min_mcap))
    IN  IF kept = <<>> THEN df ELSE kept

\* Filter 3: Market Cap
MarketCapFilter(df, p) ==
    SelectSeq(df, LAMBDA r : Ge(r.market_cap, p.min_mcap))

\* Filter 4: Exclude sectors
SectorFilter(df, p) ==
    IF p.exclude_sectors # {}
    THEN SelectSeq(df, LAMBDA r : ~(r.sector \in p.exclude_sectors))
    ELSE df

\* Filter 5: Remove stocks with missing critical data
CompletenessFilter(df, p) ==
    LET priced == SelectSeq(df, LAMBDA r : ~IsNaN(r.current_price))
    IN  SelectSeq(priced, LAMBDA r : ~IsNaN(r.rs_percentile))

\* ScreenerEngine.apply_filters, on the joined table
FilterRows(df, p) ==
    CompletenessFilter(SectorFilter(MarketCapFilter(QualityFilters(
        RSThresholdFilter(df, p), p), p), p), p)

ApplyFilters ==
    /\ pc = "quality"
    /\ filtered_results' = FilterRows(quality_metrics, params)
    /\ pc' = "filtered"
    /\ UNCHANGED <<period_args, period_return, trend_strength, last_updated, yf_history,
                   price_index, benchmark_data, mansfield_rs, graded_score, grade,
                   screener_results, shown, params, universe_df, price_data,
                   fund_info, rs_results,
                   quality_metrics, final_results, row, signal>>

----------------------------------------------------------------------------
(* SpecFilter: apply_filters over joined tables of 1..MaxRows rows.  A row  *)
(* is the row that passes every filter, or that row with one field moved to *)
(* a value at or across a threshold, or made missing.                       *)

MaxRows == 2

PassingRow ==
    [sector |-> "Financial Services", market_cap |-> Num(10000),
     current_price |-> Num(100), rs_percentile |-> Num(90), roe |-> Num(20),
     debt_equity |-> Rat(1, 2), operating_margin |-> Num(15)]

FilterFieldValues(field) ==
    CASE field = "rs_percentile" -> {NaN, Num(75), Num(80)}
      [] field = "roe" -> {NaN, Num(10), Num(15)}
      [] field = "debt_equity" -> {NaN, Num(1), Num(2)}
      [] field = "operating_margin" -> {NaN, Num(5), Num(10)}
      [] field = "market_cap" -> {NaN, Num(4000), Num(5000)}
      [] field = "sector" -> {"IT"}
      [] field = "current_price" -> {NaN}

FilterRowChoices ==
    {PassingRow} \cup
    UNION {{[PassingRow EXCEPT ![field] = v] : v \in FilterFieldValues(field)} :
              field \in DOMAIN PassingRow}

\* the sidebar's defaults and a stricter setting
ThresholdChoices ==
    {[rs_threshold |-> Num(80), min_roe |-> Num(15), max_de |-> Num(1),
      min_margin |-> Num(10), min_mcap |-> Num(5000)],
     [rs_threshold |-> Num(90), min_roe |-> Num(20), max_de |-> Rat(1, 2),
      min_margin |-> Num(15), min_mcap |-> Num(10000)]}

ExcludeChoices == {{}, {"FINANCIAL SERVICES", "IT"}}

ParamChoices ==
    {[strategy |-> st, rs_lookback |-> 252, exclude_sectors |-> ex] @@ th :
        st \in Strategies, ex \in ExcludeChoices, th \in ThresholdChoices}

JoinedTables ==
    UNION {{[i \in 1..n |-> [symbol |-> Nse500List[i]] @@ rows[i]] :
               rows \in [1..n -> FilterRowChoices]} : n \in 1..MaxRows}

InitFilter ==
    /\ params \in ParamChoices
    /\ universe_df = NoTable
    /\ price_data = <<>>
    /\ fund_info = <<>>
    /\ rs_results = NoTable
    /\ quality_metrics \in JoinedTables
    /\ filtered_results = NoTable
    /\ final_results = NoTable
    /\ row = NoRow
    /\ signal = "-"
    /\ screener_results = NoResults
    /\ shown = Welcome
    /\ price_index = <<>>
    /\ benchmark_data = NoBenchmark
    /\ mansfield_rs = NaN
    /\ graded_score = NaN
    /\ grade = "-"
    /\ period_args = NoCall
    /\ period_return = NaN
    /\ trend_strength = NaN
    /\ last_updated = Never
    /\ yf_history = <<>>
    /\ pc = "quality"

NextFilter == ApplyFilters

SpecFilter == InitFilter /\ [][NextFilter]_vars

\* filter k of apply_filters
NthFilter(k, df, p) ==
    CASE k = 1 -> RSThresholdFilter(df, p)
      [] k = 2 -> QualityFilters(df, p)
      [] k = 3 -> MarketCapFilter(df, p)
      [] k = 4 -> SectorFilter(df, p)
      [] k = 5 -> CompletenessFilter(df, p)

\* the filters applied in the order order[1], ..., order[5]
RECURSIVE FiltersInOrder(_, _, _)
FiltersInOrder(order, df, p) ==
    IF order = <<>> THEN df
    ELSE FiltersInOrder(Tail(order), NthFilter(Head(order), df, p), p)

FilterOrders == {[i \in 1..5 |-> f[i]] : f \in Permutations(1..5)}

\* C5: whatever the order in which filters 1-5 are applied, the rows that
\* remain are those apply_filters returns.
C5_OrderIndependent ==
    pc = "filtered" =>
        \A order \in FilterOrders :
            FiltersInOrder(order, quality_metrics, params) = filtered_results

\* a table of which apply_filters keeps one row and removes another
C5_Witness ==
    /\ pc = "filtered"
    /\ Len(quality_metrics) = 2
    /\ Len(filtered_results) = 1
    /\ FiltersInOrder(<<5, 4, 3, 2, 1>>, quality_metrics, params) = filtered_results

\* the membership condition of the claim, for one row
ClaimedKeep(r, p) ==
    /\ ~IsNaN(r.rs_percentile) /\ Ge(r.rs_percentile, p.rs_threshold)
    /\ Ge(r.market_cap, p.min_mcap)
    /\ r.sector \notin p.exclude_sectors
    /\ ~IsNaN(r.current_price)
    /\ p.strategy \in {"RS + Quality (Recommended)", "Pure RS (Advanced)"} =>
          /\ (IsNaN(r.roe) \/ Ge(r.roe, p.min_roe))
          /\ (IsNaN(r.debt_equity) \/ Le(r.debt_equity, p.max_de))
          /\ (IsNaN(r.operating_margin) \/ Ge(r.operating_margin, p.min_margin))

\* C6: a row is in the output of apply_filters iff its percentile is present
\* and at least the threshold, its market cap at least the minimum, its sector
\* not excluded, its price present and, under a quality-filtering strategy,
\* each of roe, debt_equity and operating_margin within its limit or missing.
C6_FilterMembership ==
    pc = "filtered" =>
        /\ \A i \in 1..Len(quality_metrics) :
              (quality_metrics[i] \in Range(filtered_results))
                  <=> ClaimedKeep(quality_metrics[i], params)
        /\ Range(filtered_results) \subseteq Range(quality_metrics)
        /\ Len(filtered_results) = Cardinality(Range(filtered_results))

\* under a quality-filtering strategy, a row with a missing ROE is kept and a
\* row with a missing percentile is removed
C6_Witness ==
    /\ pc = "filtered"
    /\ params.strategy \in QualityFilterStrategies
    /\ \E i, j \in 1..Len(quality_metrics) :
          /\ IsNaN(quality_metrics[i].roe)
          /\ quality_metrics[i] \in Range(filtered_results)
          /\ IsNaN(quality_metrics[j].rs_percentile)
          /\ quality_metrics[j] \notin Range(filtered_results)

----------------------------------------------------------------------------
(* Composite score and signal (screener_engine.py) *)

\* row.get('rs_vs_nifty50', np.nan)
BenchmarkRS(r) == IF "rs_vs_nifty50" \in DOMAIN r THEN r.rs_vs_nifty50 ELSE NaN

CountTrue(conds) == Cardinality({i \in 1..Len(conds) : conds[i]})

\* a mutant of GenerateSignal: a benchmark RS of exactly 0 does not block BUY
GenerateSignalZeroOk(r) ==
    LET buy_conditions == <<Ge(r.rs_percentile, Num(85)),
                            Ge(r.quality_score, Num(60)),
                            Ge(r.composite_score, Num(75))>>
        watch_conditions == <<Ge(r.rs_percentile, Num(70)),
                              Ge(r.quality_score, Num(40)),
                              Ge(r.composite_score, Num(60))>>
    IN  IF CountTrue(buy_conditions) >= 2
           /\ (IsNaN(BenchmarkRS(r)) \/ Ge(BenchmarkRS(r), Num(0)))
        THEN "BUY"
        ELSE IF CountTrue(watch_conditions) >= 2 THEN "WATCH"
        ELSE "AVOID"

\* a mutant of GenerateSignal: a row that meets the BUY majority and is held
\* back by its benchmark RS is not looked at again
GenerateSignalBlockedAvoid(r) ==
    LET buy_conditions == <<Ge(r.rs_percentile, Num(85)),
                            Ge(r.quality_score, Num(60)),
                            Ge(r.composite_score, Num(75))>>
        watch_conditions == <<Ge(r.rs_percentile, Num(70)),
                              Ge(r.quality_score, Num(40)),
                              Ge(r.composite_score, Num(60))>>
    IN  IF CountTrue(buy_conditions) >= 2
        THEN (IF ~IsNaN(BenchmarkRS(r)) /\ ~Gt(BenchmarkRS(r), Num(0))
              THEN "AVOID" ELSE "BUY")
        ELSE IF CountTrue(watch_conditions) >= 2 THEN "WATCH"
        ELSE "AVOID"

\* ScreenerEngine._generate_signal
GenerateSignal(r) ==
    LET buy_conditions == <<Ge(r.rs_percentile, Num(85)),
                            Ge(r.quality_score, Num(60)),
                            Ge(r.composite_score, Num(75))>>
        watch_conditions == <<Ge(r.rs_percentile, Num(70)),
                              Ge(r.quality_score, Num(40)),
                              Ge(r.composite_score, Num(60))>>
    IN  IF CountTrue(buy_conditions) >= 2
           /\ (IF ~IsNaN(BenchmarkRS(r)) THEN Gt(BenchmarkRS(r), Num(0)) ELSE TRUE)
        THEN "BUY"
        ELSE IF CountTrue(watch_conditions) >= 2 THEN "WATCH"
        ELSE "AVOID"

\* the weights of the composite, per strategy
RSQualityWeights == [rs |-> Rat(60, 100), quality |-> Rat(40, 100)]
RSValueWeights == [rs |-> Rat(50, 100), value |-> Rat(30, 100), quality |-> Rat(20, 100)]
RSLowVolWeights == [rs |-> Rat(50, 100), low_vol |-> Rat(50, 100)]
PureRSWeights == [rs |-> Num(1)]

\* Series.min() and Series.max() skip missing values; NaN when all are missing
ColumnMin(df, field) ==
    LET present == {i \in 1..Len(df) : ~IsNaN(df[i][field])}
    IN  IF present = {} THEN NaN
        ELSE df[CHOOSE i \in present : \A j \in present : Le(df[i][field], df[j][field])][field]

ColumnMax(df, field) ==
    LET present == {i \in 1..Len(df) : ~IsNaN(df[i][field])}
    IN  IF present = {} THEN NaN
        ELSE df[CHOOSE i \in present : \A j \in present : Ge(df[i][field], df[j][field])][field]

\* a mutant of InverseNormalized: the min-max position itself, not inverted
InverseNormalizedNotInverted(df, field, r) ==
    LET lo == ColumnMin(df, field)
        hi == ColumnMax(df, field)
    IN  FillNa(Mul(Div(Sub(r[field], lo), Sub(hi, lo)), Num(100)), Num(50))

\* a mutant of InverseNormalized: without fillna(50)
InverseNormalizedNoFill(df, field, r) ==
    LET lo == ColumnMin(df, field)
        hi == ColumnMax(df, field)
    IN  Sub(Num(100), Mul(Div(Sub(r[field], lo), Sub(hi, lo)), Num(100)))

\* 100 - ((x - min) / (max - min) * 100), then fillna(50)
InverseNormalized(df, field, r) ==
    LET lo == ColumnMin(df, field)
        hi == ColumnMax(df, field)
    IN  FillNa(Sub(Num(100), Mul(Div(Sub(r[field], lo), Sub(hi, lo)), Num(100))), Num(50))

\* a mutant of CompositeScore: quality_score used without fillna(0)
CompositeScoreNoFillNa(df, r, strategy) ==
    IF strategy = "RS + Quality (Recommended)"
    THEN Add(Mul(RSQualityWeights.rs, r.rs_percentile),
             Mul(RSQualityWeights.quality, r.quality_score))
    ELSE IF strategy = "RS + Value"
    THEN Add(Add(Mul(RSValueWeights.rs, r.rs_percentile),
                 Mul(RSValueWeights.value, InverseNormalized(df, "pe_ratio", r))),
             Mul(RSValueWeights.quality, r.quality_score))
    ELSE IF strategy = "RS + Low Volatility"
    THEN Add(Mul(RSLowVolWeights.rs, r.rs_percentile),
             Mul(RSLowVolWeights.low_vol, InverseNormalized(df, "volatility", r)))
    ELSE r.rs_percentile

\* a mutant of CompositeScore: the Pure RS strategy scored as RS + Quality
CompositeScorePureAsQuality(df, r, strategy) ==
    IF strategy \in {"RS + Quality (Recommended)", "Pure RS (Advanced)"}
    THEN Add(Mul(RSQualityWeights.rs, r.rs_percentile),
             Mul(RSQualityWeights.quality, FillNa(r.quality_score, Num(0))))
    ELSE IF strategy = "RS + Value"
    THEN Add(Add(Mul(RSValueWeights.rs, r.rs_percentile),
                 Mul(RSValueWeights.value, InverseNormalized(df, "pe_ratio", r))),
             Mul(RSValueWeights.quality, FillNa(r.quality_score, Num(0))))
    ELSE Add(Mul(RSLowVolWeights.rs, r.rs_percentile),
             Mul(RSLowVolWeights.low_vol, InverseNormalized(df, "volatility", r)))

\* the composite_score column of calculate_composite_scores, for row r of df
CompositeScore(df, r, strategy) ==
    IF strategy = "RS + Quality (Recommended)"
    THEN Add(Mul(RSQualityWeights.rs, r.rs_percentile),
             Mul(RSQualityWeights.quality, FillNa(r.quality_score, Num(0))))
    ELSE IF strategy = "RS + Value"
    THEN Add(Add(Mul(RSValueWeights.rs, r.rs_percentile),
                 Mul(RSValueWeights.value, InverseNormalized(df, "pe_ratio", r))),
             Mul(RSValueWeights.quality, FillNa(r.quality_score, Num(0))))
    ELSE IF strategy = "RS + Low Volatility"
    THEN Add(Mul(RSLowVolWeights.rs, r.rs_percentile),
             Mul(RSLowVolWeights.low_vol, InverseNormalized(df, "volatility", r)))
    ELSE r.rs_percentile                     \* Pure RS

\* the table with its composite_score and signal columns, before the sort
ScoredRows(df, strategy) ==
    [i \in 1..Len(df) |->
        LET scored == df[i] @@ [composite_score |-> CompositeScore(df, df[i], strategy)]
        IN  scored @@ [signal |-> GenerateSignal(scored)]]

\* a mutant of SortedDescending: the sort ascending
SortedAscending(df) ==
    \A i \in 1..(Len(df) - 1) :
        \/ IsNaN(df[i + 1].composite_score)
        \/ Le(df[i].composite_score, df[i + 1].composite_score)

\* sort_values('composite_score', ascending=False): a missing score sorts
\* last; the default sort is not stable, so rows with equal scores may come
\* out in any order
SortedDescending(df) ==
    \A i \in 1..(Len(df) - 1) :
        \/ IsNaN(df[i + 1].composite_score)
        \/ Ge(df[i].composite_score, df[i + 1].composite_score)

\* ScreenerEngine.calculate_composite_scores.  On a table without rows the
\* outcome depends on the pandas release: df.apply(..., axis=1) either
\* returns a frame without rows, and the assignment to df['signal'] raises
\* ValueError (the run ends in run_screening's except branch), or returns a
\* series without entries, and the table without rows is returned.
CalculateCompositeScores ==
    /\ pc = "filtered"
    /\ IF filtered_results = <<>>
       THEN \/ /\ pc' = "failed"
               /\ UNCHANGED final_results
            \/ /\ pc' = "scored"
               /\ final_results' = <<>>
       ELSE LET scored == ScoredRows(filtered_results, params.strategy)
            IN  /\ \E order \in Permutations(1..Len(scored)) :
                      /\ SortedDescending([i \in 1..Len(scored) |-> scored[order[i]]])
                      /\ final_results' = [i \in 1..Len(scored) |-> scored[order[i]]]
                /\ pc' = "scored"
    /\ UNCHANGED <<period_args, period_return, trend_strength, last_updated, yf_history,
                   price_index, benchmark_data, mansfield_rs, graded_score, grade,
                   screener_results, shown, params, universe_df, price_data,
                   fund_info, rs_results,
                   quality_metrics, filtered_results, row, signal>>

\* _generate_signal applied to one row
GenerateSignalForRow ==
    /\ pc = "row"
    /\ signal' = GenerateSignal(row)
    /\ pc' = "signalled"
    /\ UNCHANGED <<period_args, period_return, trend_strength, last_updated, yf_history,
                   price_index, benchmark_data, mansfield_rs, graded_score, grade,
                   screener_results, shown, params, universe_df, price_data,
                   fund_info, rs_results,
                   quality_metrics, filtered_results, final_results, row>>

----------------------------------------------------------------------------
(* The signal of one row: rows around every threshold of the rule *)

Tenths(n) == Rat(n, 10)

SignalRSValues == {NaN, Num(50), Tenths(699), Num(70), Tenths(849), Num(85)}
SignalQualityValues == {NaN, Num(20), Tenths(399), Num(40), Tenths(599), Num(60)}
SignalCompositeValues == {NaN, Num(40), Tenths(599), Num(60), Tenths(749), Num(75)}
SignalBenchmarkValues == {NaN, Tenths(-1), Num(0), Tenths(1)}

\* rows with and without the rs_vs_nifty50 column
SignalRows ==
    LET scores == [rs_percentile : SignalRSValues,
                   quality_score : SignalQualityValues,
                   composite_score : SignalCompositeValues]
    IN  scores \cup {s @@ [rs_vs_nifty50 |-> b] :
                        s \in scores, b \in SignalBenchmarkValues}

InitSignal ==
    /\ params = DefaultParams
    /\ universe_df = NoTable
    /\ price_data = <<>>
    /\ fund_info = <<>>
    /\ rs_results = NoTable
    /\ quality_metrics = NoTable
    /\ filtered_results = NoTable
    /\ final_results = NoTable
    /\ row \in SignalRows
    /\ signal = "-"
    /\ screener_results = NoResults
    /\ shown = Welcome
    /\ price_index = <<>>
    /\ benchmark_data = NoBenchmark
    /\ mansfield_rs = NaN
    /\ graded_score = NaN
    /\ grade = "-"
    /\ period_args = NoCall
    /\ period_return = NaN
    /\ trend_strength = NaN
    /\ last_updated = Never
    /\ yf_history = <<>>
    /\ pc = "row"

NextSignal == GenerateSignalForRow

SpecSignal == InitSignal /\ [][NextSignal]_vars

TwoOfThree(a, b, c) == (a /\ b) \/ (a /\ c) \/ (b /\ c)

BenchmarkMissing(r) == "rs_vs_nifty50" \notin DOMAIN r \/ IsNaN(r.rs_vs_nifty50)

ClaimedSignal(r) ==
    IF /\ TwoOfThree(Ge(r.rs_percentile, Num(85)), Ge(r.quality_score, Num(60)),
                     Ge(r.composite_score, Num(75)))
       /\ (BenchmarkMissing(r) \/ Gt(r.rs_vs_nifty50, Num(0)))
    THEN "BUY"
    ELSE IF TwoOfThree(Ge(r.rs_percentile, Num(70)), Ge(r.quality_score, Num(40)),
                       Ge(r.composite_score, Num(60)))
    THEN "WATCH"
    ELSE "AVOID"

HasScores(r, rs, quality, composite) ==
    /\ r.rs_percentile = Num(rs)
    /\ r.quality_score = Num(quality)
    /\ r.composite_score = Num(composite)

\* C4: _generate_signal returns a signal for every row: BUY iff at least two of
\* rs_percentile >= 85, quality_score >= 60, composite_score >= 75 hold and
\* rs_vs_nifty50 is missing or > 0; otherwise WATCH iff at least two of
\* rs_percentile >= 70, quality_score >= 40, composite_score >= 60 hold;
\* otherwise AVOID.  (85, 60, 75, +0.1) is BUY, (85, 60, 75, -0.1) is WATCH,
\* (70, 40, 60) is WATCH and (50, 20, 40) is AVOID.
C4_SignalRule ==
    pc = "signalled" =>
        /\ signal \in {"BUY", "WATCH", "AVOID"}
        /\ signal = ClaimedSignal(row)
        /\ HasScores(row, 85, 60, 75) /\ ~BenchmarkMissing(row) =>
              /\ row.rs_vs_nifty50 = Tenths(1) => signal = "BUY"
              /\ row.rs_vs_nifty50 = Tenths(-1) => signal = "WATCH"
        /\ HasScores(row, 70, 40, 60) => signal = "WATCH"
        /\ HasScores(row, 50, 20, 40) => signal = "AVOID"

\* the row (85, 60, 75) with a benchmark RS of exactly 0 has been signalled,
\* and is not a BUY
C4_Witness ==
    /\ pc = "signalled"
    /\ HasScores(row, 85, 60, 75)
    /\ ~BenchmarkMissing(row)
    /\ row.rs_vs_nifty50 = Num(0)
    /\ signal = "WATCH"

----------------------------------------------------------------------------
(* Composite scores of filtered tables, under every strategy *)

ScoredRSValues == {Rat(200, 3), Num(80), Num(90)}
ScoredQualityValues == {NaN, Num(40), Num(100)}
ScoredFactorValues ==
    {[pe_ratio |-> NaN, volatility |-> NaN, rs_vs_nifty50 |-> NaN],
     [pe_ratio |-> Num(10), volatility |-> Num(15), rs_vs_nifty50 |-> Num(-1)],
     [pe_ratio |-> Num(20), volatility |-> Num(30), rs_vs_nifty50 |-> Num(1)]}

ScoredRowChoices ==
    {[rs_percentile |-> rs, quality_score |-> q] @@ f :
        rs \in ScoredRSValues, q \in ScoredQualityValues, f \in ScoredFactorValues}

\* the tables apply_filters can hand over, the one without rows included
FilteredTables ==
    UNION {{[i \in 1..n |-> [symbol |-> Nse500List[i]] @@ rows[i]] :
               rows \in [1..n -> ScoredRowChoices]} : n \in 0..MaxRows}

InitComposite ==
    /\ params \in {[DefaultParams EXCEPT !.strategy = st] : st \in Strategies}
    /\ universe_df = NoTable
    /\ price_data = <<>>
    /\ fund_info = <<>>
    /\ rs_results = NoTable
    /\ quality_metrics = NoTable
    /\ filtered_results \in FilteredTables
    /\ final_results = NoTable
    /\ row = NoRow
    /\ signal = "-"
    /\ screener_results = NoResults
    /\ shown = Welcome
    /\ price_index = <<>>
    /\ benchmark_data = NoBenchmark
    /\ mansfield_rs = NaN
    /\ graded_score = NaN
    /\ grade = "-"
    /\ period_args = NoCall
    /\ period_return = NaN
    /\ trend_strength = NaN
    /\ last_updated = Never
    /\ yf_history = <<>>
    /\ pc = "filtered"

NextComposite == CalculateCompositeScores

SpecComposite == InitComposite /\ [][NextComposite]_vars

\* C9: under the Pure RS strategy composite_score equals rs_percentile exactly,
\* for every row of the result.
C9_PureRSComposite ==
    pc = "scored" /\ params.strategy = "Pure RS (Advanced)" =>
        \A i \in 1..Len(final_results) :
            final_results[i].composite_score = final_results[i].rs_percentile

\* a Pure RS result holding a row whose quality score differs from its
\* percentile
C9_Witness ==
    /\ pc = "scored"
    /\ params.strategy = "Pure RS (Advanced)"
    /\ \E i \in 1..Len(final_results) :
          /\ final_results[i].rs_percentile = Rat(200, 3)
          /\ final_results[i].quality_score = Num(100)
          /\ final_results[i].composite_score = Rat(200, 3)

SumOfWeights(w) ==
    LET RECURSIVE Total(_)
        Total(keys) == IF keys = {} THEN Num(0)
                       ELSE LET k == CHOOSE k \in keys : TRUE
                            IN  Add(w[k], Total(keys \ {k}))
    IN  Total(DOMAIN w)

\* C10: under the RS + Quality strategy composite_score is
\* 0.60 x rs_percentile + 0.40 x quality_score for every row, a missing
\* quality_score counting as 0; the weights of every strategy sum to 1.
C10_RSQualityComposite ==
    /\ pc = "scored" /\ params.strategy = "RS + Quality (Recommended)" =>
          \A i \in 1..Len(final_results) :
              LET r == final_results[i]
                  q == IF IsNaN(r.quality_score) THEN Num(0) ELSE r.quality_score
              IN  r.composite_score =
                      Add(Mul(Rat(60, 100), r.rs_percentile), Mul(Rat(40, 100), q))
    /\ \A w \in {RSQualityWeights, RSValueWeights, RSLowVolWeights, PureRSWeights} :
          SumOfWeights(w) = Num(1)

\* an RS + Quality result holding a row without a quality score, scored
\* 0.60 x 90 = 54, and a row with percentile 90 and quality 40, scored 70
C10_Witness ==
    /\ pc = "scored"
    /\ params.strategy = "RS + Quality (Recommended)"
    /\ \E i, j \in 1..Len(final_results) :
          /\ IsNaN(final_results[i].quality_score)
          /\ final_results[i].rs_percentile = Num(90)
          /\ final_results[i].composite_score = Num(54)
          /\ final_results[j].quality_score = Num(40)
          /\ final_results[j].rs_percentile = Num(90)
          /\ final_results[j].composite_score = Num(70)

----------------------------------------------------------------------------
(* The RS + Value composite, on tables with three distinct P/E ratios *)

MaxValueRows == 3

ValueRowChoices ==
    {[rs_percentile |-> rs, quality_score |-> q, pe_ratio |-> pe,
      volatility |-> Num(20)] :
        rs \in {Num(80)}, q \in {NaN, Num(50)},
        pe \in {NaN, Num(10), Num(15), Num(20)}}

ValueTables ==
    UNION {{[i \in 1..n |-> [symbol |-> Nse500List[i]] @@ rows[i]] :
               rows \in [1..n -> ValueRowChoices]} : n \in 0..MaxValueRows}

InitValue ==
    /\ params = [DefaultParams EXCEPT !.strategy = "RS + Value"]
    /\ universe_df = NoTable
    /\ price_data = <<>>
    /\ fund_info = <<>>
    /\ rs_results = NoTable
    /\ quality_metrics = NoTable
    /\ filtered_results \in ValueTables
    /\ final_results = NoTable
    /\ row = NoRow
    /\ signal = "-"
    /\ screener_results = NoResults
    /\ shown = Welcome
    /\ price_index = <<>>
    /\ benchmark_data = NoBenchmark
    /\ mansfield_rs = NaN
    /\ graded_score = NaN
    /\ grade = "-"
    /\ period_args = NoCall
    /\ period_return = NaN
    /\ trend_strength = NaN
    /\ last_updated = Never
    /\ yf_history = <<>>
    /\ pc = "filtered"

NextValue == CalculateCompositeScores

SpecValue == InitValue /\ [][NextValue]_vars

\* the values of a column that are present
PresentValues(df, field) == {df[i][field] : i \in {j \in 1..Len(df) : ~IsNaN(df[j][field])}}

Least(values) == CHOOSE v \in values : \A w \in values : Le(v, w)
Greatest(values) == CHOOSE v \in values : \A w \in values : Ge(v, w)

\* min-max position (0 to 100) of x among values; missing when x is missing,
\* when there is no value or when all values are equal
MinMax(x, values) ==
    IF values = {} THEN NaN
    ELSE Mul(Div(Sub(x, Least(values)), Sub(Greatest(values), Least(values))), Num(100))

Reciprocal(x) == Div(Num(1), x)

ZeroIfMissing(x) == IF IsNaN(x) THEN Num(0) ELSE x
MidpointIfMissing(x) == IF IsNaN(x) THEN Num(50) ELSE x

\* C11 as stated: V is the min-max normalization of 1/pe_ratio over the rows
\* of the result, 50 when missing, and composite_score is
\* 0.50 x rs_percentile + 0.30 x V + 0.20 x quality_score.
C11_ValueOfReciprocalAsStated ==
    pc = "scored" /\ params.strategy = "RS + Value" =>
        \A i \in 1..Len(final_results) :
            LET r == final_results[i]
                reciprocals == {Reciprocal(pe) : pe \in PresentValues(final_results, "pe_ratio")}
                V == MidpointIfMissing(MinMax(Reciprocal(r.pe_ratio), reciprocals))
            IN  r.composite_score =
                    Add(Add(Mul(Rat(50, 100), r.rs_percentile), Mul(Rat(30, 100), V)),
                        Mul(Rat(20, 100), ZeroIfMissing(r.quality_score)))

\* C11 (amended): under RS + Value composite_score is
\* 0.50 x rs_percentile + 0.30 x V + 0.20 x quality_score (a missing
\* quality_score counting as 0), where V is 100 minus the min-max
\* normalization (to 0-100) of pe_ratio itself over the rows of the filtered
\* set, and V is 50 for a row whose normalized value is missing.
C11_ValueOfPE ==
    pc = "scored" /\ params.strategy = "RS + Value" =>
        \A i \in 1..Len(final_results) :
            LET r == final_results[i]
                ratios == PresentValues(final_results, "pe_ratio")
                V == MidpointIfMissing(Sub(Num(100), MinMax(r.pe_ratio, ratios)))
            IN  r.composite_score =
                    Add(Add(Mul(Rat(50, 100), r.rs_percentile), Mul(Rat(30, 100), V)),
                        Mul(Rat(20, 100), ZeroIfMissing(r.quality_score)))

\* an RS + Value result with the P/E ratios 10, 15 and 20: the row at 15, with
\* percentile 80 and quality 50, has V = 50 and scores 40 + 15 + 10 = 65
C11_Witness ==
    /\ pc = "scored"
    /\ params.strategy = "RS + Value"
    /\ PresentValues(final_results, "pe_ratio") = {Num(10), Num(15), Num(20)}
    /\ \E i \in 1..Len(final_results) :
          /\ final_results[i].pe_ratio = Num(15)
          /\ final_results[i].rs_percentile = Num(80)
          /\ final_results[i].quality_score = Num(50)
          /\ final_results[i].composite_score = Num(65)

----------------------------------------------------------------------------
(* The ranking step *)

\* row r without the columns calculate_composite_scores adds
InputColumns(r) == [f \in DOMAIN r \ {"composite_score", "signal"} |-> r[f]]

Occurrences(df, r) == Cardinality({i \in 1..Len(df) : InputColumns(df[i]) = r})

\* C12: the table calculate_composite_scores returns is sorted by
\* composite_score in non-increasing order and holds exactly the rows of the
\* filtered input: none added, dropped or duplicated.
C12_SortedSameRows ==
    pc = "scored" =>
        /\ \A i, j \in 1..Len(final_results) :
              i < j => Ge(final_results[i].composite_score,
                          final_results[j].composite_score)
        /\ Len(final_results) = Len(filtered_results)
        /\ \A i \in 1..Len(filtered_results) :
              Occurrences(final_results, filtered_results[i]) =
                  Occurrences(filtered_results, filtered_results[i])

\* a result whose first row was the second row of the filtered input, with
\* a strictly higher score than the row now below it
C12_Witness ==
    /\ pc = "scored"
    /\ Len(final_results) = 2
    /\ InputColumns(final_results[1]) = filtered_results[2]
    /\ InputColumns(final_results[2]) = filtered_results[1]
    /\ Gt(final_results[1].composite_score, final_results[2].composite_score)

----------------------------------------------------------------------------
(* Rank and percentile *)

\* the rows of the RS table whose symbol has a defined long-horizon return
RankedRows == {i \in 1..Len(rs_results) : rs_results[i].rs_rank # UnrankedSentinel}

\* C13: among the symbols with a defined long-horizon return, a symbol has
\* rs_rank 1 if and only if its rs_percentile is the highest among the ranked
\* symbols, ties on the best return included.
C13_RankOneIffTopPercentile ==
    pc = "rs" =>
        \A i \in RankedRows :
            (rs_results[i].rs_rank = 1)
                <=> (\A j \in RankedRows :
                        Ge(rs_results[i].rs_percentile, rs_results[j].rs_percentile))

----------------------------------------------------------------------------
(* The application (rs_screener_app.py): script runs of main(), with and   *)
(* without the RUN SCREENING button                                        *)

\* the entries of the list whose info request can succeed in the runs
\* explored: HDFCBANK.NS, ICICIBANK.NS, TCS.NS and HDFCBANK.NS again
RunEntries == {i \in 1..Len(Nse500List) :
                  /\ Nse500List[i] \in {"HDFCBANK.NS", "ICICIBANK.NS", "TCS.NS"}
                  /\ i # 12}

RunSymbols == {Nse500List[i] : i \in RunEntries}

RunLookback == 21

\* the universe rows of the entries in ok, in list order
UniverseOf(ok) ==
    LET entries == SelectSeq([i \in 1..Len(Nse500List) |-> i], LAMBDA i : i \in ok)
    IN  [k \in 1..Len(entries) |->
            StockInfo(Nse500List[entries[k]],
                      IF Nse500List[entries[k]] = "TCS.NS" THEN "Technology"
                      ELSE "Financial Services",
                      Num(50000), Num(100), Num(20))]

\* DataFetcher.fetch_nse500_universe: one row per list entry whose info
\* request succeeds.  Without any row the frame has no 'symbol' column and
\* df['symbol'] raises KeyError.
FetchNse500Universe ==
    /\ pc = "start"
    /\ \E ok \in SUBSET RunEntries :
          IF ok = {}
          THEN /\ pc' = "failed"
               /\ UNCHANGED universe_df
          ELSE /\ pc' = "universe"
               /\ universe_df' = UniverseOf(ok)
    /\ UNCHANGED <<period_args, period_return, trend_strength, last_updated, yf_history,
                   price_index, benchmark_data, mansfield_rs, graded_score, grade,
                   screener_results, shown, params, price_data, fund_info,
                   rs_results, quality_metrics, filtered_results, final_results,
                   row, signal>>

\* the sidebar settings explored
RunParams ==
    {[DefaultParams EXCEPT !.rs_lookback = RunLookback, !.rs_threshold = t] :
        t \in {Num(60), Num(80)}}

\* what the data source answers during one run
RunHistoryChoices(sym) ==
    CASE sym = "HDFCBANK.NS" ->
             {EmptyHistory,
              TwoRun(RunLookback + SkipRecent, Num(100), Num(110)),
              TwoRun(RunLookback + SkipRecent + 9, Num(100), Num(110))}
      [] sym = "ICICIBANK.NS" ->
             {TwoRun(RunLookback + SkipRecent + 9, Num(100), Num(105))}
      [] sym = "TCS.NS" ->
             {EmptyHistory, TwoRun(RunLookback + SkipRecent + 9, Num(100), Num(98))}

RunFundamentalsChoices(sym) ==
    IF sym = "HDFCBANK.NS" THEN {FetchFailed, Background(sym, "top")}
    ELSE {Background(sym, "top")}

RunPriceData ==
    {[sym \in {t \in RunSymbols : hist[t] # EmptyHistory} |-> hist[sym]] :
        hist \in {h \in [RunSymbols -> UNION {RunHistoryChoices(t) : t \in RunSymbols}] :
                     \A t \in RunSymbols : h[t] \in RunHistoryChoices(t)}}

RunFundInfo ==
    {f \in [RunSymbols -> UNION {RunFundamentalsChoices(t) : t \in RunSymbols}] :
        \A t \in RunSymbols : f[t] \in RunFundamentalsChoices(t)}

Idle == {"ready", "done", "error"}

\* the latest time a run may start at
MaxClock == 2

\* main() with the button pressed: run_screening starts with fresh locals
PressRun ==
    /\ pc \in Idle
    /\ last_updated < MaxClock
    /\ params' \in RunParams
    /\ price_data' \in RunPriceData
    /\ fund_info' \in RunFundInfo
    /\ universe_df' = NoTable
    /\ rs_results' = NoTable
    /\ quality_metrics' = NoTable
    /\ filtered_results' = NoTable
    /\ final_results' = NoTable
    /\ pc' = "start"
    /\ UNCHANGED <<period_args, period_return, trend_strength, last_updated, yf_history,
                   price_index, benchmark_data, mansfield_rs, graded_score, grade,
                   screener_results, shown, row, signal>>

\* run_screening returns final_results (no Groq key is configured, so
\* ai_analyzer is None and step 6 is skipped); main() stores the table in
\* the session state and displays it
FinishRun ==
    /\ pc = "scored"
    /\ screener_results' = Results(final_results)
    /\ last_updated' \in (last_updated + 1)..MaxClock      \* datetime.now()
    /\ shown' = Display(Results(final_results), FALSE)
    /\ pc' = "done"
    /\ UNCHANGED <<period_args, period_return, trend_strength, yf_history,
                   price_index, benchmark_data, mansfield_rs, graded_score, grade,
                   params, universe_df, price_data, fund_info, rs_results,
                   quality_metrics, filtered_results, final_results, row, signal>>

\* a mutant of FailRun: main() stores the None that run_screening returned
FailRunClearsResults ==
    /\ pc = "failed"
    /\ screener_results' = NoResults
    /\ last_updated' = Never
    /\ shown' = Display(NoResults, TRUE)
    /\ pc' = "error"
    /\ UNCHANGED <<period_args, period_return, trend_strength, yf_history,
                   price_index, benchmark_data, mansfield_rs, graded_score, grade,
                   params, universe_df, price_data, fund_info,
                   rs_results, quality_metrics, filtered_results, final_results,
                   row, signal>>

\* run_screening's except branch: st.error, return None; main() leaves the
\* session state alone and displays what it holds
FailRun ==
    /\ pc = "failed"
    /\ shown' = Display(screener_results, TRUE)
    /\ pc' = "error"
    /\ UNCHANGED <<period_args, period_return, trend_strength, last_updated, yf_history,
                   price_index, benchmark_data, mansfield_rs, graded_score, grade,
                   screener_results, params, universe_df, price_data, fund_info,
                   rs_results, quality_metrics, filtered_results, final_results,
                   row, signal>>

\* main() without the button (a sidebar widget changed): the session's
\* results are displayed again
Rerun ==
    /\ pc \in Idle
    /\ params' \in RunParams
    /\ shown' = Display(screener_results, FALSE)
    /\ pc' = "ready"
    /\ UNCHANGED <<period_args, period_return, trend_strength, last_updated, yf_history,
                   price_index, benchmark_data, mansfield_rs, graded_score, grade,
                   screener_results, universe_df, price_data, fund_info,
                   rs_results, quality_metrics, filtered_results, final_results,
                   row, signal>>

Init ==
    /\ params \in RunParams
    /\ universe_df = NoTable
    /\ price_data = <<>>
    /\ fund_info = <<>>
    /\ rs_results = NoTable
    /\ quality_metrics = NoTable
    /\ filtered_results = NoTable
    /\ final_results = NoTable
    /\ row = NoRow
    /\ signal = "-"
    /\ screener_results = NoResults
    /\ shown = Welcome
    /\ price_index = <<>>
    /\ benchmark_data = NoBenchmark
    /\ mansfield_rs = NaN
    /\ graded_score = NaN
    /\ grade = "-"
    /\ period_args = NoCall
    /\ period_return = NaN
    /\ trend_strength = NaN
    /\ last_updated = Never
    /\ yf_history = <<>>
    /\ pc = "ready"

Next ==
    \/ PressRun
    \/ FetchNse500Universe
    \/ CalculateAllRSMetrics
    \/ CalculateQualityScores
    \/ ApplyFilters
    \/ CalculateCompositeScores
    \/ FinishRun
    \/ FailRun
    \/ Rerun

Spec == Init /\ [][Next]_vars

----------------------------------------------------------------------------
(* Symbols within a run *)

UniqueSymbols(df) ==
    \A i, j \in 1..Len(df) : df[i].symbol = df[j].symbol => i = j

\* C14: each symbol is unique within a run: the universe, the RS table and
\* the joined RS + quality table hold at most one row per symbol.
C14_SymbolsUnique ==
    /\ UniqueSymbols(universe_df)
    /\ UniqueSymbols(rs_results)
    /\ UniqueSymbols(quality_metrics)

----------------------------------------------------------------------------
(* The join of the RS table with the quality table *)

QualityFieldsMissing(r) == \A f \in DOMAIN NoQuality : IsNaN(r[f])

\* C15: once calculate_quality_scores has run, every symbol of the RS table
\* appears in the joined table, and a symbol without a row in the quality
\* table is retained with all quality fields missing.
C15_LeftJoinRetainsAll ==
    pc \in {"quality", "failed"} =>
        \A i \in 1..Len(rs_results) :
            \E j \in 1..Len(quality_metrics) :
                /\ quality_metrics[j].symbol = rs_results[i].symbol
                /\ ~HasFundamentals(rs_results[i].symbol)
                      => QualityFieldsMissing(quality_metrics[j])

----------------------------------------------------------------------------
(* Incomplete data within a run *)

HasLongReturn(sym) == ~IsNaN(LongReturn(price_data, params.rs_lookback, sym))

\* C16: no stage aborts the batch because a symbol's data is incomplete: a
\* run over a universe with rows does not end in the except branch before
\* the filters, and in the joined table every symbol of the universe has a
\* record, on which a return that could not be computed and fundamentals
\* that could not be fetched show as missing values.
C16_IncompleteDataIsMissingValues ==
    /\ pc \in {"failed", "error"} /\ universe_df # NoTable => quality_metrics # NoTable
    /\ pc = "quality" =>
          \A i \in 1..Len(universe_df) :
              \E j \in 1..Len(quality_metrics) :
                  LET r == quality_metrics[j]
                  IN  /\ r.symbol = universe_df[i].symbol
                      /\ ~HasLongReturn(r.symbol) => IsNaN(r.rs_percentile)
                      /\ ~HasFundamentals(r.symbol) => IsNaN(r.quality_score)

----------------------------------------------------------------------------
(* A run whose filters remove every row *)

\* C17: when the filters remove every row the run ends in a legitimate
\* terminal state: it does not take the error path of run_screening, and
\* the page reports "no matches".
C17_EmptyResultIsNoMatches ==
    /\ pc \in {"failed", "error"} /\ quality_metrics # NoTable
          => filtered_results # NoTable
    /\ pc = "done" /\ filtered_results = NoTable
          => shown = [view |-> "no matches", rows |-> NoTable, error |-> FALSE]

----------------------------------------------------------------------------
(* What the page presents after a run *)

\* C18: nothing is carried over from an earlier run: after a run that
\* returned a table the page presents exactly that table, and after a run
\* that returned none it presents no rows of an earlier run.
C18_ResultsOfLatestRun ==
    /\ pc = "done" => shown.rows = final_results
    /\ pc = "error" => shown.rows = NoTable

----------------------------------------------------------------------------
(* Mansfield RS (rs_calculator.py).  A price frame holds consecutive days: *)
(* its dates are first .. first + length - 1.                              *)

MansfieldWindow == 252

LastDate(first, closes) == first + SeriesLen(closes) - 1
FrameDates(first, closes) == first..LastDate(first, closes)

\* frame.loc[d, 'Close']
CloseOn(first, closes, d) == CloseAt(closes, d - first)

\* the sum of a sequence of numbers, by halves
SumRat(values) ==
    LET RECURSIVE Total(_, _)
        Total(lo, hi) ==
            IF lo > hi THEN Num(0)
            ELSE IF lo = hi THEN values[lo]
            ELSE Add(Total(lo, (lo + hi) \div 2), Total((lo + hi) \div 2 + 1, hi))
    IN  Total(1, Len(values))

\* a mutant of MansfieldRS: the two series aligned by position from the end,
\* each checked for 252 rows of its own
MansfieldRSByPosition(pdata, pindex, symbol, benchmark) ==
    IF symbol \notin DOMAIN pdata THEN NaN
    ELSE LET stock == pdata[symbol]
             rows == Min(SeriesLen(stock), SeriesLen(benchmark.closes))
         IN  IF rows < MansfieldWindow THEN NaN
             ELSE LET ratio == [k \in 1..MansfieldWindow |->
                                   Div(Iloc(stock, k - MansfieldWindow - 1),
                                       Iloc(benchmark.closes, k - MansfieldWindow - 1))]
                      current_ratio == ratio[MansfieldWindow]
                      current_ma == Div(SumRat(ratio), Num(MansfieldWindow))
                  IN  IF IsNaN(current_ma) \/ current_ma = Num(0) THEN NaN
                      ELSE Mul(Sub(Div(current_ratio, current_ma), Num(1)), Num(100))

\* RSCalculator._calculate_mansfield_rs
MansfieldRS(pdata, pindex, symbol, benchmark) ==
    IF symbol \notin DOMAIN pdata THEN NaN
    ELSE LET stock == pdata[symbol]
             common_dates == FrameDates(pindex[symbol], stock)
                                 \cap FrameDates(benchmark.first, benchmark.closes)
         IN  IF Cardinality(common_dates) < MansfieldWindow THEN NaN
             ELSE LET last == Min(LastDate(pindex[symbol], stock),
                                  LastDate(benchmark.first, benchmark.closes))
                      \* the ratio on the last 252 common dates
                      ratio == [k \in 1..MansfieldWindow |->
                                   LET d == last - MansfieldWindow + k
                                   IN  Div(CloseOn(pindex[symbol], stock, d),
                                           CloseOn(benchmark.first, benchmark.closes, d))]
                      current_ratio == ratio[MansfieldWindow]
                      current_ma == Div(SumRat(ratio), Num(MansfieldWindow))
                  IN  IF IsNaN(current_ma) \/ current_ma = Num(0) THEN NaN
                      ELSE Mul(Sub(Div(current_ratio, current_ma), Num(1)), Num(100))

MansfieldSymbol == "HDFCBANK.NS"

CalculateMansfieldRS ==
    /\ pc = "benchmark"
    /\ mansfield_rs' = MansfieldRS(price_data, price_index, MansfieldSymbol, benchmark_data)
    /\ pc' = "mansfield"
    /\ UNCHANGED <<period_args, period_return, trend_strength, last_updated, yf_history,
                   params, universe_df, price_data, fund_info, rs_results,
                   quality_metrics, filtered_results, final_results, row, signal,
                   screener_results, shown, price_index, benchmark_data,
                   graded_score, grade>>

\* closes: n at 100, the last 22 of them at p
StepSeries(n, p) == <<[n |-> n - 22, p |-> Num(100)], [n |-> 22, p |-> Num(p)]>>

StockLengths == {251, 252, 300}
BenchmarkLengths == {252, 300}
BenchmarkFirstDates == {1, 10, 49, 50, 60, 301}

InitMansfield ==
    /\ params = DefaultParams
    /\ universe_df = NoTable
    /\ \E n \in StockLengths, p \in {100, 110}, stored \in BOOLEAN :
          /\ price_data = IF stored THEN [sym \in {MansfieldSymbol} |-> StepSeries(n, p)]
                          ELSE <<>>
          /\ price_index = IF stored THEN [sym \in {MansfieldSymbol} |-> 1] ELSE <<>>
    /\ \E first \in BenchmarkFirstDates, n \in BenchmarkLengths, p \in {100, 105} :
          benchmark_data = [first |-> first, closes |-> StepSeries(n, p)]
    /\ fund_info = <<>>
    /\ rs_results = NoTable
    /\ quality_metrics = NoTable
    /\ filtered_results = NoTable
    /\ final_results = NoTable
    /\ row = NoRow
    /\ signal = "-"
    /\ screener_results = NoResults
    /\ shown = Welcome
    /\ mansfield_rs = NaN
    /\ graded_score = NaN
    /\ grade = "-"
    /\ period_args = NoCall
    /\ period_return = NaN
    /\ trend_strength = NaN
    /\ last_updated = Never
    /\ yf_history = <<>>
    /\ pc = "benchmark"

NextMansfield == CalculateMansfieldRS

SpecMansfield == InitMansfield /\ [][NextMansfield]_vars

StockDates == FrameDates(price_index[MansfieldSymbol], price_data[MansfieldSymbol])
BenchmarkDates == FrameDates(benchmark_data.first, benchmark_data.closes)

RatioOn(d) ==
    Div(CloseOn(price_index[MansfieldSymbol], price_data[MansfieldSymbol], d),
        CloseOn(benchmark_data.first, benchmark_data.closes, d))

\* the mean of the stock/benchmark ratio over the dates from..to
MeanRatio(from, to) ==
    LET RECURSIVE Total(_, _)
        Total(lo, hi) ==
            IF lo > hi THEN Num(0)
            ELSE IF lo = hi THEN RatioOn(lo)
            ELSE Add(Total(lo, (lo + hi) \div 2), Total((lo + hi) \div 2 + 1, hi))
    IN  Div(Total(from, to), Num(to - from + 1))

\* C19: Mansfield RS is missing whenever the stock and the benchmark share
\* fewer than 252 dates, however long each series is; otherwise it is
\* (ratio on the last common date / mean ratio over the last 252 common
\* dates - 1) x 100, the ratio taken on common dates only.
C19_MansfieldOnCommonDates ==
    pc = "mansfield" /\ MansfieldSymbol \in DOMAIN price_data =>
        LET common == StockDates \cap BenchmarkDates
            newest == CHOOSE d \in common : d + 1 \notin common
        IN  IF Cardinality(common) < 252 THEN IsNaN(mansfield_rs)
            ELSE mansfield_rs =
                     Mul(Sub(Div(RatioOn(newest), MeanRatio(newest - 251, newest)),
                             Num(1)),
                         Num(100))

\* both series have 300 dates, only 251 of them in common: no value
C19_Witness ==
    /\ pc = "mansfield"
    /\ MansfieldSymbol \in DOMAIN price_data
    /\ Cardinality(StockDates) = 300
    /\ Cardinality(BenchmarkDates) = 300
    /\ Cardinality(StockDates \cap BenchmarkDates) = 251
    /\ IsNaN(mansfield_rs)

----------------------------------------------------------------------------
(* The letter grade (quality_analyzer.py) *)

\* a mutant of QualityGrade: the boundaries exclusive
QualityGradeExclusive(quality_score) ==
    IF Gt(quality_score, Num(90)) THEN "A+"
    ELSE IF Gt(quality_score, Num(80)) THEN "A"
    ELSE IF Gt(quality_score, Num(70)) THEN "B+"
    ELSE IF Gt(quality_score, Num(60)) THEN "B"
    ELSE IF Gt(quality_score, Num(50)) THEN "C+"
    ELSE IF Gt(quality_score, Num(40)) THEN "C"
    ELSE IF Gt(quality_score, Num(30)) THEN "D"
    ELSE "F"

\* QualityAnalyzer.get_quality_grade
QualityGrade(quality_score) ==
    IF Ge(quality_score, Num(90)) THEN "A+"
    ELSE IF Ge(quality_score, Num(80)) THEN "A"
    ELSE IF Ge(quality_score, Num(70)) THEN "B+"
    ELSE IF Ge(quality_score, Num(60)) THEN "B"
    ELSE IF Ge(quality_score, Num(50)) THEN "C+"
    ELSE IF Ge(quality_score, Num(40)) THEN "C"
    ELSE IF Ge(quality_score, Num(30)) THEN "D"
    ELSE "F"

GetQualityGrade ==
    /\ pc = "score"
    /\ grade' = QualityGrade(graded_score)
    /\ pc' = "graded"
    /\ UNCHANGED <<period_args, period_return, trend_strength, last_updated, yf_history,
                   params, universe_df, price_data, fund_info, rs_results,
                   quality_metrics, filtered_results, final_results, row, signal,
                   screener_results, shown, price_index, benchmark_data,
                   mansfield_rs, graded_score>>

\* every score from 0 to 100 in steps of a tenth
GradedScores == {Tenths(k) : k \in 0..1000}

InitGrade ==
    /\ params = DefaultParams
    /\ universe_df = NoTable
    /\ price_data = <<>>
    /\ fund_info = <<>>
    /\ rs_results = NoTable
    /\ quality_metrics = NoTable
    /\ filtered_results = NoTable
    /\ final_results = NoTable
    /\ row = NoRow
    /\ signal = "-"
    /\ screener_results = NoResults
    /\ shown = Welcome
    /\ price_index = <<>>
    /\ benchmark_data = NoBenchmark
    /\ mansfield_rs = NaN
    /\ graded_score \in GradedScores
    /\ grade = "-"
    /\ period_args = NoCall
    /\ period_return = NaN
    /\ trend_strength = NaN
    /\ last_updated = Never
    /\ yf_history = <<>>
    /\ pc = "score"

NextGrade == GetQualityGrade

SpecGrade == InitGrade /\ [][NextGrade]_vars

\* the grade bands of the claim: lower bound (in tenths, inclusive) and grade
GradeBands == <<<<900, "A+">>, <<800, "A">>, <<700, "B+">>, <<600, "B">>,
                <<500, "C+">>, <<400, "C">>, <<300, "D">>>>

\* C20: get_quality_grade is a step function with lower-inclusive
\* boundaries: >= 90 A+, >= 80 A, >= 70 B+, >= 60 B, >= 50 C+, >= 40 C,
\* >= 30 D, otherwise F; grade(89.9) = A, grade(90.0) = A+, grade(29.9) = F,
\* grade(30.0) = D.
C20_GradeSteps ==
    pc = "graded" =>
        /\ \A k \in 0..1000 :
              graded_score = Tenths(k) =>
                  LET reached == {b \in 1..Len(GradeBands) : k >= GradeBands[b][1]}
                  IN  IF reached = {} THEN grade = "F"
                      ELSE grade = GradeBands[CHOOSE b \in reached :
                                                  \A c \in reached : b <= c][2]
        /\ graded_score = Tenths(899) => grade = "A"
        /\ graded_score = Num(90) => grade = "A+"
        /\ graded_score = Tenths(299) => grade = "F"
        /\ graded_score = Num(30) => grade = "D"

\* the boundary score 30.0 has been graded D
C20_Witness ==
    /\ pc = "graded"
    /\ graded_score = Num(30)
    /\ grade = "D"

----------------------------------------------------------------------------
(* SpecPeriod: _calculate_period_return on one symbol, over series whose   *)
(* length is around period + skip_recent and whose start and end closes    *)
(* are zero, missing or positive.                                          *)

ReturnSymbol == "HDFCBANK.NS"

CalculatePeriodReturn ==
    /\ pc = "period"
    /\ period_return' = PeriodReturn(price_data, ReturnSymbol,
                                     period_args.period, period_args.skip_recent)
    /\ pc' = "returned"
    /\ UNCHANGED <<params, universe_df, price_data, fund_info, rs_results,
                   quality_metrics, filtered_results, final_results, row, signal,
                   screener_results, shown, price_index, benchmark_data,
                   mansfield_rs, graded_score, grade, period_args,
                   trend_strength, last_updated, yf_history>>

Filler == Num(50)

\* n closes, all Filler but two: the close after which skip closes follow is
\* b, and the close back closes before that one, when there is one, is a
MarkedSeries(n, back, skip, a, b) ==
    LET before == n - 1 - skip - back
    IN  (IF before >= 0 THEN <<[n |-> before, p |-> Filler], [n |-> 1, p |-> a]>>
         ELSE <<>>)
        \o <<[n |-> Min(back, n - skip) - 1, p |-> Filler], [n |-> 1, p |-> b],
             [n |-> skip, p |-> Filler]>>

PeriodChoices == {21, 63}
SkipChoices == {0, SkipRecent}
LengthOffsets == {-1, 0, 1, 9}
StartPriceChoices == {NaN, Num(0), Num(100)}
EndPriceChoices == {NaN, Num(0), Num(110)}

InitPeriod ==
    /\ params = DefaultParams
    /\ universe_df = NoTable
    /\ \E period \in PeriodChoices, skip \in SkipChoices :
          /\ period_args = [period |-> period, skip_recent |-> skip]
          /\ \/ price_data = <<>>
             \/ \E off \in LengthOffsets, a \in StartPriceChoices, b \in EndPriceChoices :
                   price_data = [sym \in {ReturnSymbol} |->
                                    MarkedSeries(period + skip + off, period, skip, a, b)]
    /\ fund_info = <<>>
    /\ rs_results = NoTable
    /\ quality_metrics = NoTable
    /\ filtered_results = NoTable
    /\ final_results = NoTable
    /\ row = NoRow
    /\ signal = "-"
    /\ screener_results = NoResults
    /\ shown = Welcome
    /\ price_index = <<>>
    /\ benchmark_data = NoBenchmark
    /\ mansfield_rs = NaN
    /\ graded_score = NaN
    /\ grade = "-"
    /\ period_return = NaN
    /\ trend_strength = NaN
    /\ last_updated = Never
    /\ yf_history = <<>>
    /\ pc = "period"

NextPeriod == CalculatePeriodReturn

SpecPeriod == InitPeriod /\ [][NextPeriod]_vars

\* the series handed to the call, and the two closes the claims name: the
\* close skip_recent observations before the latest one and the close period
\* observations further back; a close before the first observation is
\* undefined
Observations == IF ReturnSymbol \in DOMAIN price_data
                THEN SeriesLen(price_data[ReturnSymbol]) ELSE 0

CloseBack(k) ==
    IF Observations - 1 - k < 0 THEN NaN
    ELSE CloseAt(price_data[ReturnSymbol], Observations - 1 - k)

EndPrice == CloseBack(period_args.skip_recent)
StartPrice == CloseBack(period_args.skip_recent + period_args.period)

ClaimedReturn == Mul(Sub(Div(EndPrice, StartPrice), Num(1)), Num(100))

\* C21 as stated: the result is missing if the series has fewer than
\* period + skip_recent observations or if the start price or the end price
\* is zero or undefined, and (end price / start price - 1) x 100 otherwise.
C21_PeriodReturnAsStated ==
    pc = "returned" =>
        IF \/ Observations < period_args.period + period_args.skip_recent
           \/ IsNaN(StartPrice) \/ StartPrice = Num(0)
           \/ IsNaN(EndPrice) \/ EndPrice = Num(0)
        THEN IsNaN(period_return)
        ELSE period_return = ClaimedReturn

\* C21 (amended): the result is missing if the series has fewer than
\* period + skip_recent observations, if the start price is zero or
\* undefined or if the end price is undefined, and (end price / start
\* price - 1) x 100 otherwise: -100 when the end price is zero.
C21_PeriodReturn ==
    pc = "returned" =>
        IF \/ Observations < period_args.period + period_args.skip_recent
           \/ IsNaN(StartPrice) \/ StartPrice = Num(0)
           \/ IsNaN(EndPrice)
        THEN IsNaN(period_return)
        ELSE /\ period_return = ClaimedReturn
             /\ EndPrice = Num(0) => period_return = Num(-100)

\* an end price of zero after a positive start price, 21 closes skipped
C21_Witness ==
    /\ pc = "returned"
    /\ period_args.skip_recent = SkipRecent
    /\ StartPrice = Num(100)
    /\ EndPrice = Num(0)
    /\ period_return = Num(-100)

\* C30: the call yields a defined value only when the series has at least
\* period + skip_recent + 1 observations; with exactly period + skip_recent
\* observations the call still returns, and what it returns is missing.
C30_OneMoreObservation ==
    pc = "returned" =>
        /\ ~IsNaN(period_return)
              => Observations >= period_args.period + period_args.skip_recent + 1
        /\ Observations = period_args.period + period_args.skip_recent
              => IsNaN(period_return)

\* exactly period + skip_recent observations with a positive end price
C30_Witness ==
    /\ pc = "returned"
    /\ Observations = period_args.period + period_args.skip_recent
    /\ EndPrice = Num(110)
    /\ IsNaN(period_return)

----------------------------------------------------------------------------
(* RS rank *)

\* the place of a symbol in the universe, which is the order in which
\* self.returns gained its keys
UniversePlace(sym) ==
    CHOOSE i \in 1..Len(universe_df) :
        /\ universe_df[i].symbol = sym
        /\ \A j \in 1..(i - 1) : universe_df[j].symbol # sym

\* the members that come before sym when the members with a defined return
\* are sorted by return descending, ties in their prior order
Ahead(sym) ==
    {t \in DefinedMembers :
        \/ Gt(MemberReturn(t), MemberReturn(sym))
        \/ MemberReturn(t) = MemberReturn(sym) /\ UniversePlace(t) < UniversePlace(sym)}

\* C22: a symbol with a defined long-horizon return has as rank its 1-based
\* position among such symbols sorted by return descending, ties in their
\* prior order, so the real ranks are 1..n without repetition; a symbol
\* without a defined return has rank 999, larger than every real rank.
C22_RankByPosition ==
    pc = "rs" =>
        /\ \A i \in 1..Len(rs_results) :
              IF rs_results[i].symbol \in DefinedMembers
              THEN rs_results[i].rs_rank = Cardinality(Ahead(rs_results[i].symbol)) + 1
              ELSE /\ rs_results[i].rs_rank = 999
                   /\ rs_results[i].rs_rank > Cardinality(DefinedMembers)
        /\ {rs_results[i].rs_rank : i \in RankedRows} = 1..Cardinality(DefinedMembers)

\* two symbols with the same return at consecutive ranks, the earlier one
\* first, next to a symbol without a return
C22_Witness ==
    /\ pc = "rs"
    /\ \E i, j, k \in 1..Len(rs_results) :
          /\ i < j
          /\ rs_results[i].symbol \in DefinedMembers
          /\ MemberReturn(rs_results[i].symbol) = MemberReturn(rs_results[j].symbol)
          /\ rs_results[j].rs_rank = rs_results[i].rs_rank + 1
          /\ rs_results[k].rs_rank = UnrankedSentinel

----------------------------------------------------------------------------
(* Trend strength (rs_calculator.py): the R-squared of a straight line     *)
(* fitted to the last 126 closes, times 100                                *)

TrendMinLength == 50
TrendWindow == 126

\* price_df['Close'].tail(k).values
TailValues(series, k) ==
    LET n == SeriesLen(series)
        m == Min(k, n)
    IN  [i \in 1..m |-> CloseAt(series, n - m + i - 1)]

Mean(values) == Div(SumRat(values), Num(Len(values)))

Square(x) == Mul(x, x)

\* np.polyfit(time_idx, prices, 1) with time_idx = 0..len-1: the least
\* squares line, <<slope, intercept>>
PolyFit1(prices) ==
    LET n == Len(prices)
        x_mean == Rat(n - 1, 2)
        y_mean == Mean(prices)
        sxy == SumRat([i \in 1..n |->
                          Mul(Sub(Num(i - 1), x_mean), Sub(prices[i], y_mean))])
        sxx == SumRat([i \in 1..n |-> Square(Sub(Num(i - 1), x_mean))])
        slope == Div(sxy, sxx)
    IN  <<slope, Sub(y_mean, Mul(slope, x_mean))>>

\* np.polyval(coeffs, time_idx)
PolyVal1(coeffs, n) == [i \in 1..n |-> Add(Mul(coeffs[1], Num(i - 1)), coeffs[2])]

\* RSCalculator._calculate_trend_strength.  With a missing close among the
\* prices, polyfit either raises (the bare except returns 0) or returns
\* missing coefficients, and then ss_tot is missing, ss_tot > 0 is false and
\* r_squared is 0: the answer is 0 either way.
TrendStrength(pdata, symbol) ==
    IF symbol \notin DOMAIN pdata THEN Num(0)
    ELSE IF SeriesLen(pdata[symbol]) < TrendMinLength THEN Num(0)
    ELSE LET prices == TailValues(pdata[symbol], TrendWindow)
         IN  IF \E i \in 1..Len(prices) : IsNaN(prices[i]) THEN Num(0)
             ELSE LET coeffs == PolyFit1(prices)
                      y_pred == PolyVal1(coeffs, Len(prices))
                      ss_res == SumRat([i \in 1..Len(prices) |->
                                           Square(Sub(prices[i], y_pred[i]))])
                      y_mean == Mean(prices)
                      ss_tot == SumRat([i \in 1..Len(prices) |->
                                           Square(Sub(prices[i], y_mean))])
                      r_squared == IF Gt(ss_tot, Num(0))
                                   THEN Sub(Num(1), Div(ss_res, ss_tot))
                                   ELSE Num(0)
                  IN  Mul(r_squared, Num(100))

TrendSymbol == "HDFCBANK.NS"

CalculateTrendStrength ==
    /\ pc = "trend"
    /\ trend_strength' = TrendStrength(price_data, TrendSymbol)
    /\ pc' = "trended"
    /\ UNCHANGED <<params, universe_df, price_data, fund_info, rs_results,
                   quality_metrics, filtered_results, final_results, row, signal,
                   screener_results, shown, price_index, benchmark_data,
                   mansfield_rs, graded_score, grade, period_args, period_return,
                   last_updated, yf_history>>

\* n closes rising by one a day from start
Ramp(n, start) == [i \in 1..n |-> [n |-> 1, p |-> Num(start + i - 1)]]

\* n closes: a, and b for the last k of them
Step(n, k, a, b) == <<[n |-> n - k, p |-> a], [n |-> k, p |-> b]>>

TrendLengths == {49, 50, 125, 126, 130}
TrendBreaks == {1, 21, 63}
TrendCloses == {NaN, Num(100), Num(101)}

TrendSeries ==
    {Step(n, k, a, b) : n \in TrendLengths, k \in {j \in TrendBreaks : j < 49},
                        a, b \in TrendCloses}
        \cup {Step(n, k, a, b) : n \in {m \in TrendLengths : m >= 125}, k \in TrendBreaks,
                                 a, b \in TrendCloses}
        \cup {Ramp(n, 100) : n \in {49, 60}}

InitTrend ==
    /\ params = DefaultParams
    /\ universe_df = NoTable
    /\ \/ price_data = <<>>
       \/ \E series \in TrendSeries : price_data = [sym \in {TrendSymbol} |-> series]
    /\ fund_info = <<>>
    /\ rs_results = NoTable
    /\ quality_metrics = NoTable
    /\ filtered_results = NoTable
    /\ final_results = NoTable
    /\ row = NoRow
    /\ signal = "-"
    /\ screener_results = NoResults
    /\ shown = Welcome
    /\ price_index = <<>>
    /\ benchmark_data = NoBenchmark
    /\ mansfield_rs = NaN
    /\ graded_score = NaN
    /\ grade = "-"
    /\ period_args = NoCall
    /\ period_return = NaN
    /\ trend_strength = NaN
    /\ last_updated = Never
    /\ yf_history = <<>>
    /\ pc = "trend"

NextTrend == CalculateTrendStrength

SpecTrend == InitTrend /\ [][NextTrend]_vars

TrendObservations == IF TrendSymbol \in DOMAIN price_data
                     THEN SeriesLen(price_data[TrendSymbol]) ELSE 0

\* C23: the trend strength is never missing and lies in [0, 100], and it is
\* 0 whenever the symbol has no price series or a series of fewer than 126
\* closes.
C23_TrendStrengthZeroWhenShort ==
    pc = "trended" =>
        /\ ~IsNaN(trend_strength)
        /\ Ge(trend_strength, Num(0)) /\ Le(trend_strength, Num(100))
        /\ TrendObservations < 126 => trend_strength = Num(0)

----------------------------------------------------------------------------
(* BUY majority and WATCH majority *)

BuyMajority(r) ==
    TwoOfThree(Ge(r.rs_percentile, Num(85)), Ge(r.quality_score, Num(60)),
               Ge(r.composite_score, Num(75)))

WatchMajority(r) ==
    TwoOfThree(Ge(r.rs_percentile, Num(70)), Ge(r.quality_score, Num(40)),
               Ge(r.composite_score, Num(60)))

BlockedByBenchmark(r) ==
    /\ BuyMajority(r)
    /\ ~BenchmarkMissing(r)
    /\ Le(r.rs_vs_nifty50, Num(0))

\* C24: a row with at least 2 of the BUY conditions has at least 2 of the
\* WATCH conditions, and a row that meets the BUY majority but has a
\* benchmark RS that is present and <= 0 is signalled WATCH, never AVOID.
C24_BlockedBuyIsWatch ==
    pc = "signalled" =>
        /\ BuyMajority(row) => WatchMajority(row)
        /\ BlockedByBenchmark(row) => signal = "WATCH"

\* a row with two BUY conditions (its quality score is missing), held back
\* by a negative benchmark RS
C24_Witness ==
    /\ pc = "signalled"
    /\ IsNaN(row.quality_score)
    /\ BlockedByBenchmark(row)
    /\ row.rs_vs_nifty50 = Tenths(-1)
    /\ signal = "WATCH"

----------------------------------------------------------------------------
(* The highest percentile a run can produce *)

Ranked == Cardinality(DefinedMembers)

\* C25: rs_percentile never reaches 100: with n symbols that have a defined
\* long-horizon return no percentile exceeds 100 x (n - 1) / n, and with a
\* threshold T such that n x (100 - T) < 100 no row passes the filters.
C25_PercentileBelowHundred ==
    /\ pc \in {"rs", "quality", "filtered", "scored"} =>
          \A i \in 1..Len(rs_results) :
              /\ Lt(rs_results[i].rs_percentile, Num(100))
              /\ Ranked > 0 => Le(rs_results[i].rs_percentile,
                                   Rat(100 * (Ranked - 1), Ranked))
    /\ pc \in {"filtered", "scored"} =>
          \A t \in 0..100 :
              params.rs_threshold = Num(t) /\ Ranked * (100 - t) < 100
                  => filtered_results = NoTable

\* three ranked symbols, the best one at 100 x 2/3: at threshold 80 the
\* filters have left no row
C25_Witness ==
    /\ pc = "filtered"
    /\ Ranked = 3
    /\ params.rs_threshold = Num(80)
    /\ \E i \in 1..Len(rs_results) : rs_results[i].rs_percentile = Rat(200, 3)
    /\ filtered_results = NoTable

----------------------------------------------------------------------------
(* The strategies that filter on quality *)

\* what a row must meet whatever the strategy
KeptByOtherFilters(r, p) ==
    /\ Ge(r.rs_percentile, p.rs_threshold)
    /\ Ge(r.market_cap, p.min_mcap)
    /\ r.sector \notin p.exclude_sectors
    /\ ~IsNaN(r.current_price)

WithinQualityLimits(r, p) ==
    /\ (IsNaN(r.roe) \/ Ge(r.roe, p.min_roe))
    /\ (IsNaN(r.debt_equity) \/ Le(r.debt_equity, p.max_de))
    /\ (IsNaN(r.operating_margin) \/ Ge(r.operating_margin, p.min_margin))

\* C26: the roe, debt_equity and operating_margin predicates are applied
\* under "RS + Quality (Recommended)" and "Pure RS (Advanced)" and under no
\* other strategy: under "RS + Value" and "RS + Low Volatility" the output
\* is made of the rows that meet the other filters, whatever their roe,
\* debt_equity and operating_margin and whatever min_roe, max_de, min_margin.
C26_QualityFiltersByStrategy ==
    pc = "filtered" =>
        IF params.strategy \in {"RS + Quality (Recommended)", "Pure RS (Advanced)"}
        THEN filtered_results =
                 SelectSeq(quality_metrics,
                           LAMBDA r : KeptByOtherFilters(r, params)
                                          /\ WithinQualityLimits(r, params))
        ELSE /\ params.strategy \in {"RS + Value", "RS + Low Volatility"}
             /\ filtered_results =
                    SelectSeq(quality_metrics, LAMBDA r : KeptByOtherFilters(r, params))

\* under RS + Value a row outside the quality limits is kept; under Pure RS
\* it would not be
C26_Witness ==
    /\ pc = "filtered"
    /\ params.strategy = "RS + Value"
    /\ \E i \in 1..Len(filtered_results) :
          /\ Lt(filtered_results[i].roe, params.min_roe)
          /\ ~WithinQualityLimits(filtered_results[i], params)

----------------------------------------------------------------------------
(* The history a run asks for (rs_calculator.py 47-62, data_fetcher.py):   *)
(* ticker.history(start = now - period_days, end = now), for the stocks    *)
(* and for the benchmark, with period_days = lookback_period + 30.  The    *)
(* data source holds at most one close per day; days are numbered, and     *)
(* run takes place on day Today.                                           *)

Today == 400

\* a mutant of PeriodDays: a year, the default of the fetch functions
PeriodDaysOneYear(lookback_period) == 365

\* the period_days calculate_all_rs_metrics passes on
PeriodDays(lookback_period) == lookback_period + 30

\* the closes of series at the 0-based positions lo..hi
SliceSeries(series, lo, hi) ==
    LET starts == [i \in 1..Len(series) |->
                      SumSeq([j \in 1..(i - 1) |-> series[j].n])]
        Count(i) == Min(hi, starts[i] + series[i].n - 1)
                        - (IF lo > starts[i] THEN lo ELSE starts[i]) + 1
        cut == [i \in 1..Len(series) |->
                   [n |-> IF Count(i) > 0 THEN Count(i) ELSE 0, p |-> series[i].p]]
    IN  SelectSeq(cut, LAMBDA run : run.n > 0)

EmptyFrame == [first |-> 0, closes |-> <<>>]

\* ticker.history(start, end) on a frame of the data source: the rows dated
\* from..to
History(frame, from, to) ==
    LET lo == IF from > frame.first THEN from ELSE frame.first
        hi == Min(to, LastDate(frame.first, frame.closes))
    IN  IF lo > hi THEN EmptyFrame
        ELSE [first |-> lo,
              closes |-> SliceSeries(frame.closes, lo - frame.first, hi - frame.first)]

FetchedSymbol == "HDFCBANK.NS"
BenchmarkTickers == {"^NSEI", "^CRSLDX", "^NIFTYFIN"}

\* fetch_historical_prices and get_benchmark_data / get_sector_index_data
\* for one stock and one benchmark.  Whether the first and the last day of
\* the period are part of the answer depends on the time of day; a stock
\* with an empty answer is not stored, and calculate_all_rs_metrics then
\* makes no row for it.
FetchHistories ==
    /\ pc = "fetch"
    /\ \E from \in {Today - PeriodDays(params.rs_lookback),
                     Today - PeriodDays(params.rs_lookback) + 1},
          to \in {Today - 1, Today} :
          LET hist == History(yf_history[FetchedSymbol], from, to)
              bench == CHOOSE t \in BenchmarkTickers : t \in DOMAIN yf_history
          IN  /\ IF hist = EmptyFrame
                 THEN /\ price_data' = <<>>
                      /\ price_index' = <<>>
                      /\ pc' = "skipped"
                 ELSE /\ price_data' = [sym \in {FetchedSymbol} |-> hist.closes]
                      /\ price_index' = [sym \in {FetchedSymbol} |-> hist.first]
                      /\ pc' = "fetched"
              /\ benchmark_data' = History(yf_history[bench], from, to)
    /\ UNCHANGED <<params, universe_df, fund_info, rs_results, quality_metrics,
                   filtered_results, final_results, row, signal, screener_results,
                   shown, mansfield_rs, graded_score, grade, period_args,
                   period_return, trend_strength, last_updated, yf_history>>

BenchmarkScores ==
    [rs_percentile : {Num(70), Num(90)}, quality_score : {Num(40), Num(60)},
     composite_score : {Num(60), Num(80)}]

\* the Mansfield RS of the stock against the benchmark (lines 84-99), and
\* the signal of a row that carries it as rs_vs_nifty50
CompareAndSignal ==
    /\ pc = "fetched"
    /\ mansfield_rs' = MansfieldRS(price_data, price_index, FetchedSymbol, benchmark_data)
    /\ \E scores \in BenchmarkScores :
          row' = [symbol |-> FetchedSymbol] @@ scores @@ [rs_vs_nifty50 |-> mansfield_rs']
    /\ signal' = GenerateSignal(row')
    /\ pc' = "signalled"
    /\ UNCHANGED <<params, universe_df, price_data, fund_info, rs_results,
                   quality_metrics, filtered_results, final_results,
                   screener_results, shown, price_index, benchmark_data,
                   graded_score, grade, period_args, period_return,
                   trend_strength, last_updated, yf_history>>

\* what the data source holds: daily closes from day first on, 100 but for
\* the last one
SourceFrame(first, last, p) ==
    [first |-> first, closes |-> Step(last - first + 1, 1, Num(100), Num(p))]

SourceFirstDays == {1, 120}
SourceLastDays == {200, Today - 1, Today}

InitFetch ==
    /\ params \in {[DefaultParams EXCEPT !.rs_lookback = lb] : lb \in Lookbacks}
    /\ universe_df = NoTable
    /\ \E first1, first2 \in SourceFirstDays, last1, last2 \in SourceLastDays,
          p \in {90, 110}, bench \in BenchmarkTickers :
          yf_history = (FetchedSymbol :> SourceFrame(first1, last1, p))
                           @@ (bench :> SourceFrame(first2, last2, 100))
    /\ price_data = <<>>
    /\ fund_info = <<>>
    /\ rs_results = NoTable
    /\ quality_metrics = NoTable
    /\ filtered_results = NoTable
    /\ final_results = NoTable
    /\ row = NoRow
    /\ signal = "-"
    /\ screener_results = NoResults
    /\ shown = Welcome
    /\ price_index = <<>>
    /\ benchmark_data = NoBenchmark
    /\ mansfield_rs = NaN
    /\ graded_score = NaN
    /\ grade = "-"
    /\ period_args = NoCall
    /\ period_return = NaN
    /\ trend_strength = NaN
    /\ last_updated = Never
    /\ pc = "fetch"

NextFetch ==
    \/ FetchHistories
    \/ CompareAndSignal

SpecFetch == InitFetch /\ [][NextFetch]_vars

\* C27: with a look-back of 21, 63 or 126 days the stock and the benchmark
\* frames hold at most lookback + 31 dates, fewer than 252, so the Mansfield
\* RS against the benchmark is missing and a row with the BUY majority is
\* signalled BUY: the benchmark condition does not block it.
C27_ShortHistoryNoBenchmarkRS ==
    params.rs_lookback \in {21, 63, 126} =>
        /\ pc \in {"fetched", "signalled"} =>
              /\ SeriesLen(price_data[FetchedSymbol]) <= params.rs_lookback + 31
              /\ SeriesLen(benchmark_data.closes) <= params.rs_lookback + 31
              /\ Cardinality(FrameDates(price_index[FetchedSymbol],
                                        price_data[FetchedSymbol])
                                 \cap FrameDates(benchmark_data.first,
                                                 benchmark_data.closes)) < 252
        /\ pc = "signalled" =>
              /\ IsNaN(mansfield_rs)
              /\ IsNaN(row.rs_vs_nifty50)
              /\ BuyMajority(row) => signal = "BUY"

\* a look-back of 126 days, 157 dates fetched for the stock, whose last
\* close is below the flat benchmark: BUY all the same
C27_Witness ==
    /\ pc = "signalled"
    /\ params.rs_lookback = 126
    /\ SeriesLen(price_data[FetchedSymbol]) = 157
    /\ Iloc(price_data[FetchedSymbol], -1) = Num(90)
    /\ BuyMajority(row)
    /\ signal = "BUY"

----------------------------------------------------------------------------
(* SpecScore: apply_filters followed by calculate_composite_scores, over   *)
(* joined tables of 1..MaxRows rows whose rs_percentile and quality_score  *)
(* are missing or at an end of [0, 100] (the threshold for the lower end   *)
(* of rs_percentile), under every strategy.                                *)

ScoreRowChoices ==
    {[PassingRow EXCEPT !.rs_percentile = rs] @@ [quality_score |-> q] @@ f :
        rs \in {NaN, Num(60), Num(100)}, q \in {NaN, Num(100)},
        f \in {[pe_ratio |-> NaN, volatility |-> NaN],
               [pe_ratio |-> Num(10), volatility |-> Num(15)],
               [pe_ratio |-> Num(20), volatility |-> Num(30)]}}

ScoreTables ==
    UNION {{[i \in 1..n |-> [symbol |-> Nse500List[i]] @@ rows[i]] :
               rows \in [1..n -> ScoreRowChoices]} : n \in 1..MaxRows}

InitScore ==
    /\ params \in {[DefaultParams EXCEPT !.strategy = st, !.rs_threshold = Num(60)] :
                      st \in Strategies}
    /\ universe_df = NoTable
    /\ price_data = <<>>
    /\ fund_info = <<>>
    /\ rs_results = NoTable
    /\ quality_metrics \in ScoreTables
    /\ filtered_results = NoTable
    /\ final_results = NoTable
    /\ row = NoRow
    /\ signal = "-"
    /\ screener_results = NoResults
    /\ shown = Welcome
    /\ price_index = <<>>
    /\ benchmark_data = NoBenchmark
    /\ mansfield_rs = NaN
    /\ graded_score = NaN
    /\ grade = "-"
    /\ period_args = NoCall
    /\ period_return = NaN
    /\ trend_strength = NaN
    /\ last_updated = Never
    /\ yf_history = <<>>
    /\ pc = "quality"

NextScore ==
    \/ ApplyFilters
    \/ CalculateCompositeScores

SpecScore == InitScore /\ [][NextScore]_vars

\* the column has at most one distinct present value: one row, or all equal
Degenerate(df, field) == Cardinality(PresentValues(df, field)) <= 1

\* C28: every row of the table that apply_filters and then
\* calculate_composite_scores produce has a composite_score that is present
\* and within [0, 100], under each strategy; where the table has one row or
\* its pe_ratio (volatility) values are all equal, the normalized term of
\* RS + Value (RS + Low Volatility) is 50 for every row.
C28_CompositeInRange ==
    pc = "scored" =>
        \A i \in 1..Len(final_results) :
            LET r == final_results[i]
            IN  /\ ~IsNaN(r.composite_score)
                /\ Ge(r.composite_score, Num(0))
                /\ Le(r.composite_score, Num(100))
                /\ params.strategy = "RS + Value" /\ Degenerate(final_results, "pe_ratio")
                      => r.composite_score =
                             Add(Add(Mul(Rat(1, 2), r.rs_percentile), Mul(Rat(3, 10), Num(50))),
                                 Mul(Rat(1, 5), ZeroIfMissing(r.quality_score)))
                /\ params.strategy = "RS + Low Volatility"
                      /\ Degenerate(final_results, "volatility")
                      => r.composite_score =
                             Add(Mul(Rat(1, 2), r.rs_percentile), Mul(Rat(1, 2), Num(50)))

\* of two joined rows the one with a percentile is left, under RS + Value:
\* 50% of 60, 30% of 50 and 20% of a missing quality score
C28_Witness ==
    /\ pc = "scored"
    /\ params.strategy = "RS + Value"
    /\ Len(quality_metrics) = 2
    /\ Len(final_results) = 1
    /\ IsNaN(final_results[1].quality_score)
    /\ final_results[1].composite_score = Num(45)

----------------------------------------------------------------------------
(* The session state across a failed run (rs_screener_app.py, main) *)

\* C29: when a run fails (run_screening returns None) main() leaves
\* screener_results and last_updated as they were and displays the stored
\* results of the last successful run; the two change only at the end of a
\* run that returned a table, which is then what is stored.
C29_FailedRunKeepsResults ==
    [][/\ pc = "failed" /\ pc' = "error"
          => /\ screener_results' = screener_results
             /\ last_updated' = last_updated
             /\ shown'.rows = screener_results.rows
             /\ shown'.view = "welcome" <=> screener_results.none
       /\ screener_results' # screener_results \/ last_updated' # last_updated
          => /\ pc = "scored"
             /\ screener_results' = Results(final_results)
             /\ last_updated' > last_updated]_vars

\* a run has failed at its first step after an earlier run stored a table
\* with rows, which is displayed next to the error
C29_Witness ==
    /\ pc = "error"
    /\ universe_df = NoTable
    /\ ~screener_results.none
    /\ Len(screener_results.rows) > 0
    /\ last_updated # Never
    /\ shown = [view |-> "results", rows |-> screener_results.rows, error |-> TRUE]

====
